---- MODULE Spec2Model ----
(***************************************************************************)
(* Order-creation saga of the crm-integration service.                     *)
(*                                                                         *)
(* Two implementations of the saga are modelled, chosen per request:       *)
(*   "E"  EnhancedCrmService.createTelegramOrderComplete                   *)
(*        (src/src/services/enhancedCrmService.js)                         *)
(*   "B"  POST /telegram-order -> BotController.createOrder                *)
(*        (src/unnamed/part_004, src/unnamed/part_005)                     *)
(* Every await on a remote system is one step; the remote system answers   *)
(* with success or with an error.  Money is counted in whole units.        *)
(***************************************************************************)
EXTENDS Integers, Sequences, FiniteSets, TLC

\* ---------------------------------------------------------------- bounds
MaxItems == 3
MaxQty == 2
\* The clock of the axios client advances at most this many times.
MaxTicks == 3
\* A variant of the client that retries without end is followed up to this
\* many sends of one request.
MaxSends == 3

\* ------------------------------------------------------------ environment
Runs == {"r1", "r2"}
ProductIds == {1, 2, 3}
\* Rows of the ecommerce "Product" table (id -> price); product 3 is absent.
Catalog == (1 :> 5) @@ (2 :> 3)
\* Rows of product_mappings (ecommerceId -> sendpulseId); product 2 is unmapped.
ProductMapping == (1 :> 11)
GoodProduct == CHOOSE p \in DOMAIN Catalog : p \in DOMAIN ProductMapping
ExtIds == {"x1"}
Phones == {"none", "p1"}
\* A declared amount of the bot (cart_total, sum, orderAttributes.sum); 0 = absent.
Declared == {0, 7}
RawQuantities == 0..MaxQty
\* Requested delivery stations: none, two names of the tables, a lower-case
\* spelling, and a name no table has.
Stations == {"none", "Vevey", "vevey", "Geneva", "Nowhere"}
Cities == {"none", "Bern"}
Cantons == {"none", "BE"}
\* The bot order id a caller sends (botOrderId of the request body).
BotOrderIds == {<<"o1">>}
\* The CRM requests followed through the axios client.
Reqs == {"q1", "q2"}
\* The deliveries of webhooks, the deal ids they carry ("d1" has an ecommerce
\* order, "d2" has none, "none" = no deal_id) and the step names they carry:
\* 'Підтверджено', 'Виконано', a name the mapping does not have, and none.
Hooks == {"w1", "w2", "w3"}
ShopDeals == {"d1"}
HookDeals == {"none", "d1", "d2"}
StepNames == {"none", "Pidtverdzheno", "Vykonano", "Arkhiv"}
\* The POST /cart-add requests and the products they add.
Adds == {"a1", "a2"}
CartProducts == {1, 2}

\* The CRM contacts that may exist before any order arrives.
cExt == [id |-> 1, ext |-> "x1", phone |-> "none"]
cPhone == [id |-> 1, ext |-> "none", phone |-> "p1"]
InitialCrm == {{}, {cExt}, {cPhone}}

\* ---------------------------------------------------------------- helpers
RECURSIVE SeqsUpTo(_, _)
SeqsUpTo(S, n) ==
  IF n = 0 THEN {<<>>}
  ELSE LET shorter == SeqsUpTo(S, n - 1)
       IN shorter \cup {Append(s, x) : s \in {t \in shorter : Len(t) = n - 1}, x \in S}

RECURSIVE SumSeq(_)
SumSeq(s) == IF s = <<>> THEN 0 ELSE Head(s) + SumSeq(Tail(s))

\* A declared amount that is a text and no number, and what parseFloat makes
\* of it.  Both stand outside the amounts; the text is truthy, NaN is falsy.
Unparseable == -1
NaN == -2

\* JavaScript a || b on numbers (0, NaN and absent are falsy).
Or(a, b) == IF a # 0 /\ a # NaN THEN a ELSE b

\* parseFloat of an amount or of a text that is no number.
ParseFloat(x) == IF x = Unparseable THEN NaN ELSE x

\* JavaScript a || b on names ("none" stands for an absent or empty name).
OrS(a, b) == IF a # "none" THEN a ELSE b

\* ------------------------------------------------------------------ texts
\* A text is followed by what it was made from, by its length in characters
\* and by whether it ends with the marker '...'.
Txt(kind, len) == [kind |-> kind, len |-> len, ellipsis |-> FALSE]

Min(a, b) == IF a < b THEN a ELSE b

\* t.substring(0, n): a cut takes the end of the text away.
Substring(t, n) == [t EXCEPT !.len = Min(@, n), !.ellipsis = @ /\ n >= t.len]

\* t + '...'
PlusEllipsis(t) == [t EXCEPT !.len = @ + 3, !.ellipsis = TRUE]

\* The length of a number written in decimal.
RECURSIVE Digits(_)
Digits(n) == IF n < 10 THEN 1 ELSE 1 + Digits(n \div 10)

\* The length of lens.join(', ').
JoinLength(lens) == IF lens = <<>> THEN 0 ELSE SumSeq(lens) + 2 * (Len(lens) - 1)

\* The length of the name of a product of the catalog, and of the name
\* 'Telegram Order (Product mapping failed)'.
ProductNameLength == 20
FallbackNameLength == 39
\* Lengths of orderAttributes.fullname and orderAttributes.order_text; 0 = absent.
FullnameLengths == {0, 8, 300}
OrderTextLengths == {0, 20, 300}
CartProductsLengths == {0, 300}

\* ---------------------------------------------------------------- requests
\* The quantity varies on the mapped product; an unmapped or absent product is
\* ordered once.
RawItems ==
  [id : {GoodProduct}, quantity : RawQuantities]
    \cup [id : ProductIds \ {GoodProduct}, quantity : {1}]

\* At most one of the declared amounts is present in a request.
DeclaredFields ==
  {d \in [cart_total : Declared, sum : Declared, attrSum : Declared] :
     Cardinality({f \in {"cart_total", "sum", "attrSum"} : d[f] # 0}) <= 1}

\* city, station and canton are the fields of deliveryInfo; flat holds the
\* fields of the same names at the top level of the order data.
NoFlat == [city |-> "none", station |-> "none", canton |-> "none"]

Requests ==
  {[variant |-> v, contact_id |-> x, phone |-> ph, products |-> ps,
    cart_total |-> d.cart_total, sum |-> d.sum, attrSum |-> d.attrSum,
    station |-> "Vevey", city |-> "Bern", canton |-> "BE", flat |-> NoFlat,
    botOrderId |-> k, fullname |-> 0, order_text |-> 0, cart_products |-> 0] :
     v \in {"E", "B"}, x \in ExtIds, ph \in Phones,
     ps \in SeqsUpTo(RawItems, MaxItems), d \in DeclaredFields, k \in BotOrderIds}


\* ------------------------------------------------- catalog and enrichment
\* parseInt(product.quantity || 1) and parseInt(product.quantity) || 1 agree on
\* the quantities drawn here: a quantity of 0 is replaced by 1.
QuantityOrOne(q) == IF q = 0 THEN 1 ELSE q

\* The fallback unit price of mapTelegramItemsToEcommerceFormat: the declared
\* cart amount spread over the requested quantities (whole units).
FallbackUnitPrice(rq) ==
  LET totalCartAmount == Or(rq.cart_total, rq.sum)
      totalQuantity ==
        SumSeq([i \in 1..Len(rq.products) |-> QuantityOrOne(rq.products[i].quantity)])
  IN IF totalQuantity > 0 THEN totalCartAmount \div totalQuantity ELSE 0

MapItem(rq, p) ==
  IF p.id \in DOMAIN Catalog
  THEN [productId |-> p.id, quantity |-> QuantityOrOne(p.quantity),
        unitPrice |-> Catalog[p.id]]
  ELSE [productId |-> p.id, quantity |-> QuantityOrOne(p.quantity),
        unitPrice |-> FallbackUnitPrice(rq)]

MapTelegramItemsToEcommerceFormat(rq) ==
  IF rq.products = <<>>
  THEN <<[productId |-> 1, quantity |-> 1, unitPrice |-> Or(rq.cart_total, rq.sum)]>>
  ELSE [i \in 1..Len(rq.products) |-> MapItem(rq, rq.products[i])]

\* A total that adds the unit prices and leaves the quantities out.
UnitPricesTotal(its) == SumSeq([i \in 1..Len(its) |-> its[i].unitPrice])

ItemsTotal(its) ==
  SumSeq([i \in 1..Len(its) |-> its[i].quantity * its[i].unitPrice])

\* totalAmount of the ecommerce order payload of createOrderInEcommerceDB.
EcommerceTotalAmount(rq, its) ==
  Or(rq.cart_total, Or(rq.sum, ItemsTotal(its)))

\* The error enrichProductsWithPricing throws for one product, "none" if it
\* enriches.
EnrichError(p) ==
  IF p.id \notin DOMAIN Catalog THEN "ProductNotFound"
  ELSE IF p.id \notin DOMAIN ProductMapping THEN "ProductNotMapped"
  ELSE "none"

EnrichOne(p) ==
  [id |-> p.id, sendpulseId |-> ProductMapping[p.id],
   quantity |-> QuantityOrOne(p.quantity), unitPrice |-> Catalog[p.id],
   totalPrice |-> Catalog[p.id] * QuantityOrOne(p.quantity),
   name |-> ProductNameLength]

\* A resolver that leaves out the items it cannot resolve and returns the rest.
EnrichSkippingFailures(products) ==
  LET good == {i \in 1..Len(products) : EnrichError(products[i]) = "none"}
      F[i \in 0..Len(products)] ==
        IF i = 0 THEN <<>>
        ELSE IF i \in good THEN Append(F[i - 1], EnrichOne(products[i])) ELSE F[i - 1]
  IN [error |-> "none", products |-> F[Len(products)]]

\* enrichProductsWithPricing of EnhancedCrmService: the enriched products, or
\* the error of the first product that cannot be enriched.
EnrichProductsWithPricing(products) ==
  LET bad == {i \in 1..Len(products) : EnrichError(products[i]) # "none"}
  IN IF bad = {}
     THEN [error |-> "none", products |-> [i \in 1..Len(products) |-> EnrichOne(products[i])]]
     ELSE [error |-> EnrichError(products[CHOOSE i \in bad : \A j \in bad : i <= j]),
           products |-> <<>>]

\* The single product createOrderInCRM puts in place of a failed enrichment.
FallbackProduct(rq) ==
  [id |-> 1, sendpulseId |-> 1, quantity |-> 1, unitPrice |-> rq.sum,
   totalPrice |-> rq.sum, name |-> FallbackNameLength]

\* enrichedProducts of createOrderInCRM (step 2).
CrmEnrichedProducts(rq) ==
  LET e == EnrichProductsWithPricing(rq.products)
  IN IF e.error = "none" THEN e.products ELSE <<FallbackProduct(rq)>>

ProductsTotal(ps) == SumSeq([i \in 1..Len(ps) |-> ps[i].totalPrice])

\* price of the deal createOrderInCRM submits.
CrmDealPrice(rq, ps) == ParseFloat(Or(rq.attrSum, Or(rq.sum, ProductsTotal(ps))))

\* ------------------------------------------------------------------ state
VARIABLES
  live,         \* the requests handled in this behaviour
  req,          \* req[r]: the order data of request r
  pc,           \* pc[r]: the await at which request r stands
  items,        \* items[r]: line items of the ecommerce order payload
  enriched,     \* enriched[r]: enrichedProducts of the CRM deal
  contact,      \* contact[r]: id of the resolved CRM contact, 0 = none
  deal,         \* deal[r]: id of the created deal, 0 = none
  order,        \* order[r]: id of the created ecommerce order, 0 = none
  idx,          \* idx[r]: position of the add-products loop
  attachFailed, \* attachFailed[r]: positions whose addProductToDeal failed
  xlink,        \* xlink[r]: outcome of the sync-data PATCH
  tracking,     \* tracking[r]: outcome of storeBotOrderMapping
  flag,         \* flag[r]: the has_active_order update
  err,          \* err[r]: the error request r failed with
  result,       \* result[r]: what the caller received
  calls,        \* calls[r]: the remote writes issued for request r, in order
  accessToken,  \* accessToken[v]: the token cached by the service object of saga v
  tokenExpiry,  \* tokenExpiry[v]: the time at which that token counts as expired, 0 = null
  now,          \* the clock read by Date.now()
  http,         \* http[c]: the CRM request c of the axios client
  issued,       \* the number of tokens the authentication endpoint has handed out
  botOrderId,   \* botOrderId[r]: the bot order id request r is handled under
  crmContacts,  \* contacts in the CRM
  newContacts,  \* ids of the contacts the requests created
  deals,        \* deals in the CRM, deals[id]
  orders,       \* orders in the ecommerce store, orders[id]
  ledger,       \* sync-log rows of the ecommerce store
  botOrders,    \* bot_orders tracking rows
  hook,         \* hook[w]: the delivery w of a SendPulse webhook
  shopStatus,   \* shopStatus[d]: status of the ecommerce order of deal d
  cartItems,    \* rows of bot_cart_items
  rowSeq,       \* the serial the next row of bot_cart_items gets
  add,          \* add[a]: the POST /cart-add request a
  co            \* the POST /cart-checkout request

vars == <<live, req, pc, items, enriched, contact, deal, order, idx,
          attachFailed, xlink, tracking, flag, err, result, calls, accessToken,
          tokenExpiry, now, http, issued, botOrderId,
          crmContacts, newContacts, deals, orders, ledger, botOrders,
          hook, shopStatus, cartItems, rowSeq, add, co>>

\* The state of the webhook route and of the ecommerce orders it updates.
hooks == <<hook, shopStatus>>

\* The state of the cart routes and of the table bot_cart_items.
carts == <<cartItems, rowSeq, add, co>>

\* The state of the axios client of SendPulseCRMService beside the cached token.
client == <<tokenExpiry, now, http, issued>>

NoResult == [success |-> FALSE, status |-> "none", message |-> "none",
             ecommerceOrderId |-> 0, crmOrderId |-> 0, contactId |-> 0,
             totalAmount |-> 0]

\* A CRM request that has not been made: where it stands, whether its config
\* is marked _retried, the authentication calls made for it, the token each
\* send of it carried, and the status of its last response.
NoHttp == [pc |-> "idle", retried |-> FALSE, auth |-> 0, headers |-> <<>>, status |-> 0]

\* A webhook that has not been delivered: where its handler stands, deal_id
\* and stepName_deal of its variables, the order status the step name maps to,
\* the status the handler read, the status updates it sent, whether the same
\* webhook had been answered with an update when it arrived, and its answer.
NoHook == [pc |-> "idle", deal_id |-> "none", stepName |-> "none", status |-> "none",
           found |-> "none", sent |-> 0, redelivered |-> FALSE, message |-> "none"]

\* A cart request that has not been made: where it stands, the product and
\* the quantity it adds, and the row findFirst gave it.
NoRow == [id |-> 0, productId |-> 0, quantity |-> 0]
NoAdd == [pc |-> "idle", productId |-> 0, quantity |-> 0, existingItem |-> NoRow]

\* A checkout that has not been made: where it stands, the rows getCart gave
\* it, and the rows its clearCart deleted.
NoCheckout == [pc |-> "idle", items |-> {}, deleted |-> {}]

InitRun ==
  /\ pc = [r \in Runs |-> "start"]
  /\ items = [r \in Runs |-> <<>>]
  /\ enriched = [r \in Runs |-> <<>>]
  /\ contact = [r \in Runs |-> 0]
  /\ deal = [r \in Runs |-> 0]
  /\ order = [r \in Runs |-> 0]
  /\ idx = [r \in Runs |-> 0]
  /\ attachFailed = [r \in Runs |-> {}]
  /\ xlink = [r \in Runs |-> "none"]
  /\ tracking = [r \in Runs |-> "none"]
  /\ flag = [r \in Runs |-> "none"]
  /\ err = [r \in Runs |-> "none"]
  /\ result = [r \in Runs |-> NoResult]
  /\ calls = [r \in Runs |-> <<>>]
  /\ accessToken = [v \in {"E", "B"} |-> "none"]
  /\ tokenExpiry = [v \in {"E", "B"} |-> 0]
  /\ now = 0
  /\ http = [c \in Reqs |-> NoHttp]
  /\ issued = 0
  /\ botOrderId = [r \in Runs |-> <<>>]
  /\ newContacts = {}
  /\ deals = <<>>
  /\ orders = <<>>
  /\ ledger = <<>>
  /\ botOrders = <<>>
  /\ hook = [w \in Hooks |-> NoHook]
  /\ shopStatus = [d \in ShopDeals |-> "PENDING"]
  /\ cartItems = {}
  /\ rowSeq = 1
  /\ add = [a \in Adds |-> NoAdd]
  /\ co = NoCheckout

\* One request is handled; the CRM holds any of the initial contact sets.
Init ==
  /\ live = {"r1"}
  /\ crmContacts \in InitialCrm
  /\ \E rq \in Requests : req = [r \in Runs |-> rq]
  /\ InitRun

\* ---------------------------------------------------------------- steps
world == <<crmContacts, newContacts, deals, orders, ledger, botOrders>>

\* The request interceptor (and BotController's request headers) call
\* ensureValidToken before every CRM request: a token obtained is kept in the
\* service object.  A request that throws may have failed before any token was
\* obtained.  The steps of the saga do not follow the clock: when a token
\* expires is followed in the steps of the axios client.
Cached(v) == [accessToken EXCEPT ![v] = "cached"]
UsesToken(r) ==
  accessToken' \in
    IF pc'[r] \in {"E_catch", "failed"}
    THEN {accessToken, Cached(req[r].variant)}
    ELSE {Cached(req[r].variant)}

Called(r, op) == calls' = [calls EXCEPT ![r] = Append(@, op)]

\* A throw inside the try block of createTelegramOrderComplete.
ThrowE(r, e) ==
  /\ pc' = [pc EXCEPT ![r] = "E_catch"]
  /\ err' = [err EXCEPT ![r] = e]

\* Date.now() at the start of a run: the first run to start reads instant 1, a
\* run that starts after another reads the same millisecond or a later one.
StartTimes(r) == IF \A q \in live \ {r} : pc[q] = "start" THEN {1} ELSE {1, 2}

\* `TG_${Date.now()}_${chatId || contact_id}`: the order data of the bot carry
\* no chatId here.  The botOrderId of the order data is not read.
GeneratedBotOrderId(t, rq) == <<"TG", t, rq.contact_id>>

\* --- createTelegramOrderComplete, its bot order id and step 1:
\* createOrderInEcommerceDB
E_MapItems(r) ==
  /\ r \in live /\ pc[r] = "start" /\ req[r].variant = "E"
  /\ \E t \in StartTimes(r) :
       botOrderId' = [botOrderId EXCEPT ![r] = GeneratedBotOrderId(t, req[r])]
  /\ items' = [items EXCEPT ![r] = MapTelegramItemsToEcommerceFormat(req[r])]
  /\ pc' = [pc EXCEPT ![r] = "E_health"]
  /\ UNCHANGED <<live, req, enriched, contact, deal, order, idx, attachFailed, xlink, tracking,
                 flag, err, result, calls, world>>
  /\ UNCHANGED <<accessToken, client, hooks, carts>>

E_TestConnection(r) ==
  /\ r \in live /\ pc[r] = "E_health"
  /\ \/ pc' = [pc EXCEPT ![r] = "E_postOrder"] /\ UNCHANGED err
     \/ ThrowE(r, "EcommerceOrderCreationFailed")
  /\ UNCHANGED <<live, req, items, enriched, contact, deal, order, idx, attachFailed, xlink,
                 tracking, flag, result, calls, world>>
  /\ UNCHANGED <<accessToken, botOrderId, client, hooks, carts>>

\* stationMapping of EnhancedCrmService (two of its rows).
StationMapping == ("Vevey" :> 11) @@ ("Geneva" :> 7)
\* The names that include, or are included in, a key of stationMapping once
\* both are lower-cased, and the first such key.
PartialMatches == ("vevey" :> "Vevey")

\* A test that knows the keys of stationMapping only as they are written.
IsStationInMappingExact(st) == st # "none" /\ st \in DOMAIN StationMapping

IsStationInMapping(st) ==
  st # "none" /\ (st \in DOMAIN StationMapping \/ st \in DOMAIN PartialMatches)

\* 0 stands for null.
MapStationNameToId(st) ==
  IF st = "none" THEN 0
  ELSE IF st \in DOMAIN StationMapping THEN StationMapping[st]
  ELSE IF st \in DOMAIN PartialMatches THEN StationMapping[PartialMatches[st]]
  ELSE 0

\* notesAdmin either carries the sentence about the station that was not found
\* and the switch to pickup in Nyon, or it does not.
\* deliveryInfo?.station || station
RequestedStation(rq) == OrS(rq.station, rq.flat.station)

EcommerceOrderPayload(r) ==
  LET requestedStation == RequestedStation(req[r])
      isStationFound == IsStationInMapping(requestedStation)
  IN [externalOrderId |-> botOrderId[r],
      totalAmount |-> EcommerceTotalAmount(req[r], items[r]),
      items |-> items[r], sendpulseDealId |-> 0, sendpulseContactId |-> 0,
      syncStatus |-> "PENDING",
      deliveryType |-> IF isStationFound THEN "RAILWAY_STATION" ELSE "PICKUP",
      deliveryStationId |->
        IF isStationFound THEN MapStationNameToId(requestedStation) ELSE 0,
      notesAdmin |-> IF isStationFound THEN "from bot" ELSE "from bot, station not found"]

E_PostOrder(r) ==
  /\ r \in live /\ pc[r] = "E_postOrder"
  /\ Called(r, "createOrder")
  /\ \/ /\ orders' = Append(orders, EcommerceOrderPayload(r))
        /\ order' = [order EXCEPT ![r] = Len(orders) + 1]
        /\ pc' = [pc EXCEPT ![r] = "E_findContact"]
        /\ UNCHANGED err
     \/ /\ ThrowE(r, "EcommerceOrderCreationFailed")
        /\ UNCHANGED <<orders, order>>
  /\ UNCHANGED <<live, req, items, enriched, contact, deal, idx, attachFailed, xlink, tracking,
                 flag, result, crmContacts, newContacts, deals, ledger, botOrders>>
  /\ UNCHANGED <<accessToken, botOrderId, client, hooks, carts>>

\* --- step 2: createOrderInCRM, contact resolution
ByExternalId(x) == {c \in crmContacts : c.ext = x}
ByPhone(ph) == {c \in crmContacts : c.phone = ph}

\* The lookup with every error answered by null, as a 404 is.
E_FindContactSwallows(r) ==
  /\ r \in live /\ pc[r] = "E_findContact"
  /\ \/ \E c \in ByExternalId(req[r].contact_id) :
          /\ contact' = [contact EXCEPT ![r] = c.id]
          /\ pc' = [pc EXCEPT ![r] = "E_enrich"]
          /\ UNCHANGED <<err, calls>>
     \/ /\ ByExternalId(req[r].contact_id) = {}
        /\ pc' = [pc EXCEPT ![r] = "E_findAgain"]
        /\ UNCHANGED <<contact, err, calls>>
     \/ /\ pc' = [pc EXCEPT ![r] = "E_findAgain"]
        /\ Called(r, "lookupFailed")
        /\ UNCHANGED <<contact, err>>
  /\ UNCHANGED <<live, req, items, enriched, deal, order, idx, attachFailed, xlink, tracking,
                 flag, result, world>>
  /\ UsesToken(r)
  /\ UNCHANGED <<botOrderId, client, hooks, carts>>

\* findContactByMessengerExternalId: a contact, null on 404, or the error.
E_FindContact(r) ==
  /\ r \in live /\ pc[r] = "E_findContact"
  /\ \/ \E c \in ByExternalId(req[r].contact_id) :
          /\ contact' = [contact EXCEPT ![r] = c.id]
          /\ pc' = [pc EXCEPT ![r] = "E_enrich"]
          /\ UNCHANGED <<err, calls>>
     \/ /\ ByExternalId(req[r].contact_id) = {}
        /\ pc' = [pc EXCEPT ![r] = "E_findAgain"]
        /\ UNCHANGED <<contact, err, calls>>
     \/ /\ ThrowE(r, "ContactResolutionFailed")
        /\ Called(r, "lookupFailed")
        /\ UNCHANGED contact
  /\ UNCHANGED <<live, req, items, enriched, deal, order, idx, attachFailed, xlink, tracking,
                 flag, result, world>>
  /\ UsesToken(r)
  /\ UNCHANGED <<botOrderId, client, hooks, carts>>

\* findOrCreateTelegramContact: the lookup by messenger id, once more.
E_FindAgain(r) ==
  /\ r \in live /\ pc[r] = "E_findAgain"
  /\ \/ \E c \in ByExternalId(req[r].contact_id) :
          /\ contact' = [contact EXCEPT ![r] = c.id]
          /\ pc' = [pc EXCEPT ![r] = "E_enrich"]
          /\ UNCHANGED <<err, calls>>
     \/ /\ ByExternalId(req[r].contact_id) = {}
        /\ pc' = [pc EXCEPT ![r] =
                    IF req[r].phone # "none" THEN "E_findByPhone" ELSE "E_lookupOrCreate"]
        /\ UNCHANGED <<contact, err, calls>>
     \/ /\ ThrowE(r, "ContactResolutionFailed")
        /\ Called(r, "lookupFailed")
        /\ UNCHANGED contact
  /\ UNCHANGED <<live, req, items, enriched, deal, order, idx, attachFailed, xlink, tracking,
                 flag, result, world>>
  /\ UsesToken(r)
  /\ UNCHANGED <<botOrderId, client, hooks, carts>>

\* findOrCreateTelegramContact: findContactByPhone when the order has a phone.
E_FindByPhone(r) ==
  /\ r \in live /\ pc[r] = "E_findByPhone"
  /\ \/ \E c \in ByPhone(req[r].phone) :
          /\ contact' = [contact EXCEPT ![r] = c.id]
          /\ pc' = [pc EXCEPT ![r] = "E_enrich"]
          /\ UNCHANGED <<err, calls>>
     \/ /\ ByPhone(req[r].phone) = {}
        /\ pc' = [pc EXCEPT ![r] = "E_lookupOrCreate"]
        /\ UNCHANGED <<contact, err, calls>>
     \/ /\ ThrowE(r, "ContactResolutionFailed")
        /\ Called(r, "lookupFailed")
        /\ UNCHANGED contact
  /\ UNCHANGED <<live, req, items, enriched, deal, order, idx, attachFailed, xlink, tracking,
                 flag, result, world>>
  /\ UsesToken(r)
  /\ UNCHANGED <<botOrderId, client, hooks, carts>>

\* What the CRM's get-list answers for the phone of newContactData (phone || '').
\* How the CRM filters on an empty phone is not decided by this repository: it
\* answers with no contact or with any contact.
PhoneSearchHits(ph) == IF ph = "none" THEN crmContacts ELSE ByPhone(ph)
PhoneSearchMayMiss(ph) == ph = "none" \/ ByPhone(ph) = {}

\* SendPulseCRMService.findOrCreateContact: the lookup by phone.
E_LookupOrCreate(r) ==
  /\ r \in live /\ pc[r] = "E_lookupOrCreate"
  /\ \/ \E c \in PhoneSearchHits(req[r].phone) :
          /\ contact' = [contact EXCEPT ![r] = c.id]
          /\ pc' = [pc EXCEPT ![r] = "E_enrich"]
          /\ UNCHANGED <<err, calls>>
     \/ /\ PhoneSearchMayMiss(req[r].phone)
        /\ pc' = [pc EXCEPT ![r] = "E_createContact"]
        /\ UNCHANGED <<contact, err, calls>>
     \/ /\ ThrowE(r, "ContactResolutionFailed")
        /\ Called(r, "lookupFailed")
        /\ UNCHANGED contact
  /\ UNCHANGED <<live, req, items, enriched, deal, order, idx, attachFailed, xlink, tracking,
                 flag, result, world>>
  /\ UsesToken(r)
  /\ UNCHANGED <<botOrderId, client, hooks, carts>>

NextContactId == Cardinality(crmContacts) + 1

\* SendPulseCRMService.createContact: names, phone, email and a source tag; the
\* request body carries no messenger external id.
NewContact(rq) == [id |-> NextContactId, ext |-> "none", phone |-> rq.phone]

\* A creation whose failure is logged only: the saga goes on without a contact.
E_CreateContactSwallows(r) ==
  /\ r \in live /\ pc[r] = "E_createContact"
  /\ Called(r, "createContact")
  /\ \/ /\ crmContacts' = crmContacts \cup {NewContact(req[r])}
        /\ newContacts' = newContacts \cup {NextContactId}
        /\ contact' = [contact EXCEPT ![r] = NextContactId]
        /\ pc' = [pc EXCEPT ![r] = "E_enrich"]
        /\ UNCHANGED err
     \/ /\ pc' = [pc EXCEPT ![r] = "E_enrich"]
        /\ UNCHANGED <<contact, crmContacts, newContacts, err>>
  /\ UNCHANGED <<live, req, items, enriched, deal, order, idx, attachFailed, xlink, tracking,
                 flag, result, deals, orders, ledger, botOrders>>
  /\ UsesToken(r)
  /\ UNCHANGED <<botOrderId, client, hooks, carts>>

E_CreateContact(r) ==
  /\ r \in live /\ pc[r] = "E_createContact"
  /\ Called(r, "createContact")
  /\ \/ /\ crmContacts' = crmContacts \cup {NewContact(req[r])}
        /\ newContacts' = newContacts \cup {NextContactId}
        /\ contact' = [contact EXCEPT ![r] = NextContactId]
        /\ pc' = [pc EXCEPT ![r] = "E_enrich"]
        /\ UNCHANGED err
     \/ ThrowE(r, "ContactCreationFailed") /\ UNCHANGED <<contact, crmContacts, newContacts>>
  /\ UNCHANGED <<live, req, items, enriched, deal, order, idx, attachFailed, xlink, tracking,
                 flag, result, deals, orders, ledger, botOrders>>
  /\ UsesToken(r)
  /\ UNCHANGED <<botOrderId, client, hooks, carts>>

\* An enrichment that keeps its result in a field of the service object, where
\* every run reads it.
E_EnrichIntoField(r) ==
  /\ r \in live /\ pc[r] = "E_enrich"
  /\ enriched' = [q \in Runs |-> CrmEnrichedProducts(req[r])]
  /\ pc' = [pc EXCEPT ![r] = "E_createDeal"]
  /\ UNCHANGED <<live, req, items, contact, deal, order, idx, attachFailed, xlink, tracking,
                 flag, err, result, calls, world>>
  /\ UNCHANGED <<accessToken, botOrderId, client, hooks, carts>>

\* --- step 2: createOrderInCRM, enrichment, deal and line items
E_Enrich(r) ==
  /\ r \in live /\ pc[r] = "E_enrich"
  /\ enriched' = [enriched EXCEPT ![r] = CrmEnrichedProducts(req[r])]
  /\ pc' = [pc EXCEPT ![r] = "E_createDeal"]
  /\ UNCHANGED <<live, req, items, contact, deal, order, idx, attachFailed, xlink, tracking,
                 flag, err, result, calls, world>>
  /\ UNCHANGED <<accessToken, botOrderId, client, hooks, carts>>

\* value || 'Unknown'
OrUnknown(x) == OrS(x, "Unknown")

\* The attributes with the city and the station in each other's slot.
DealAttributesSwapped(delivery) ==
  (922104 :> <<OrUnknown(delivery.city), OrUnknown(delivery.station)>>)
    @@ (922253 :> OrUnknown(delivery.station))
    @@ (922255 :> <<OrUnknown(delivery.city), OrUnknown(delivery.canton)>>)
    @@ (923275 :> OrUnknown(delivery.canton))
    @@ (923276 :> OrUnknown(delivery.station))
    @@ (923277 :> OrUnknown(delivery.city))

\* The attributes of the deal request that carry the delivery: the slot of
\* each attributeId and its value; `${a}, ${b}` is the pair <<a, b>>.
DealAttributes(delivery) ==
  (922104 :> <<OrUnknown(delivery.city), OrUnknown(delivery.station)>>)
    @@ (922253 :> OrUnknown(delivery.station))
    @@ (922255 :> <<OrUnknown(delivery.city), OrUnknown(delivery.canton)>>)
    @@ (923275 :> OrUnknown(delivery.canton))
    @@ (923276 :> OrUnknown(delivery.city))
    @@ (923277 :> OrUnknown(delivery.station))

\* delivery of the deal data in createOrderInCRM: the top-level field, else
\* the field of deliveryInfo.
DeliveryE(rq) ==
  [city |-> OrS(rq.flat.city, rq.city), station |-> OrS(rq.flat.station, rq.station),
   canton |-> OrS(rq.flat.canton, rq.canton)]

\* The bot variables of the order data that are texts, each by its length.
OrderAttributes(rq) ==
  [fullname |-> rq.fullname, order_text |-> rq.order_text,
   cart_products |-> rq.cart_products]

\* A bot variable as a text: what the bot sent, "none" when it sent nothing.
BotText(kind, len) == IF len = 0 THEN Txt("none", 0) ELSE Txt(kind, len)

\* `${productCount} позицій на суму ${cart_total || 0} CHF`
CartSummary(rq) == Txt("summary", 1 + 17 + Digits(rq.cart_total) + 4)

\* sanitizeOrderAttributes: cart_products becomes a summary, a fullname of more
\* than 100 characters is cut to 97 and the marker; nothing else is touched.
SanitizeOrderAttributes(rq) ==
  LET oa == OrderAttributes(rq)
      fullname == BotText("fullname", oa.fullname)
  IN [fullname |-> IF fullname.len > 100 THEN PlusEllipsis(Substring(fullname, 97))
                   ELSE fullname,
      order_text |-> BotText("order_text", oa.order_text),
      cart_products |-> IF oa.cart_products # 0 THEN CartSummary(rq)
                        ELSE Txt("none", 0)]

\* JavaScript a || b on texts (the empty text is falsy).
OrT(a, b) == IF a.len # 0 THEN a ELSE b

MAX_TITLE_LENGTH == 255

\* generateDealTitle: `Telegram Order - ${customerName} - ${productCount}
\* позицій, ${totalAmount.toFixed(2)} CHF`, cut to 252 characters and the marker
\* when it is longer than MAX_TITLE_LENGTH.  The customer name is the fullname
\* of the bot as it was sent, or 'Customer'.
GenerateDealTitle(products, rq) ==
  LET customerName == Or(rq.fullname, 8)
      title == Txt("summary", 17 + customerName + 3 + Digits(Len(products)) + 10
                                + (Digits(ProductsTotal(products)) + 3) + 4)
  IN IF title.len > MAX_TITLE_LENGTH
     THEN PlusEllipsis(Substring(title, MAX_TITLE_LENGTH - 3))
     ELSE title

\* products.map(p => `${p.name} x${p.quantity}`).join(', ')
ProductList(ps) ==
  Txt("products", JoinLength([i \in 1..Len(ps) |-> ps[i].name + 2 + Digits(ps[i].quantity)]))

\* `Telegram Order - ${enrichedProducts.map(p => p.name).join(', ')}`
NamesTitle(ps) == Txt("names", 17 + JoinLength([i \in 1..Len(ps) |-> ps[i].name]))

\* `${contact.firstName || ''} ${contact.lastName || ''}`.trim(): the contacts
\* followed here carry no names.
ContactName == Txt("none", 0)

\* The deal request: name, price and attributes.  Besides the delivery, slot
\* 922108 holds the product list and slot 923274 the name of the customer.
NewDeal(c, price, delivery, title, texts) ==
  [contact |-> c, price |-> price, products |-> <<>>, title |-> title,
   attributes |-> DealAttributes(delivery) @@ texts]

\* dealData of createOrderInCRM as createDealWithAttributes submits it.
DealE(r) ==
  LET sanitized == SanitizeOrderAttributes(req[r])
  IN NewDeal(contact[r], CrmDealPrice(req[r], enriched[r]), DeliveryE(req[r]),
             GenerateDealTitle(enriched[r], req[r]),
             (922108 :> OrT(sanitized.order_text, ProductList(enriched[r])))
               @@ (923274 :> OrT(sanitized.fullname, ContactName)))

\* The pc after the deal exists: the add-products loop, or past it when there
\* is nothing to add.
AfterDeal(r, loop, after) == IF enriched[r] = <<>> THEN after ELSE loop

\* A deal creation that looks for a deal made under the same bot order id and
\* takes it instead of creating another.
E_CreateDealOncePerKey(r) ==
  /\ r \in live /\ pc[r] = "E_createDeal"
  /\ Called(r, "createDeal")
  /\ LET made == {q \in live \ {r} :
                   req[q].botOrderId = req[r].botOrderId /\ deal[q] # 0}
     IN \/ /\ made # {}
           /\ \E q \in made : deal' = [deal EXCEPT ![r] = deal[q]]
           /\ idx' = [idx EXCEPT ![r] = 1]
           /\ pc' = [pc EXCEPT ![r] = AfterDeal(r, "E_attach", "E_patch")]
           /\ UNCHANGED <<deals, err>>
        \/ /\ made = {}
           /\ deals' = Append(deals, DealE(r))
           /\ deal' = [deal EXCEPT ![r] = Len(deals) + 1]
           /\ idx' = [idx EXCEPT ![r] = 1]
           /\ pc' = [pc EXCEPT ![r] = AfterDeal(r, "E_attach", "E_patch")]
           /\ UNCHANGED err
        \/ /\ ThrowE(r, "DealCreationFailed")
           /\ UNCHANGED <<deals, deal, idx>>
  /\ UNCHANGED <<live, req, items, enriched, contact, order, attachFailed, xlink,
                 tracking, flag, result, crmContacts, newContacts, orders, ledger,
                 botOrders>>
  /\ UsesToken(r)
  /\ UNCHANGED <<botOrderId, client, hooks, carts>>

\* createDealWithAttributes without the test of the deal id: an answer that
\* carries no id is passed on.
E_CreateDealWithoutId(r) ==
  /\ r \in live /\ pc[r] = "E_createDeal"
  /\ Called(r, "createDeal")
  /\ \/ /\ deals' = Append(deals, DealE(r))
        /\ deal' = [deal EXCEPT ![r] = Len(deals) + 1]
        /\ idx' = [idx EXCEPT ![r] = 1]
        /\ pc' = [pc EXCEPT ![r] = AfterDeal(r, "E_attach", "E_patch")]
        /\ UNCHANGED err
     \/ /\ deals' \in {deals, Append(deals, DealE(r))}
        /\ idx' = [idx EXCEPT ![r] = 1]
        /\ pc' = [pc EXCEPT ![r] = AfterDeal(r, "E_attach", "E_patch")]
        /\ UNCHANGED <<deal, err>>
  /\ UNCHANGED <<live, req, items, enriched, contact, order, attachFailed, xlink,
                 tracking, flag, result, crmContacts, newContacts, orders, ledger,
                 botOrders>>
  /\ UsesToken(r)
  /\ UNCHANGED <<botOrderId, client, hooks, carts>>

\* createDealWithAttributes: POST /deals; a failed request or a response
\* without a deal id throws.
E_CreateDeal(r) ==
  /\ r \in live /\ pc[r] = "E_createDeal"
  /\ Called(r, "createDeal")
  /\ \/ /\ deals' = Append(deals, DealE(r))
        /\ deal' = [deal EXCEPT ![r] = Len(deals) + 1]
        /\ idx' = [idx EXCEPT ![r] = 1]
        /\ pc' = [pc EXCEPT ![r] = AfterDeal(r, "E_attach", "E_patch")]
        /\ UNCHANGED err
     \/ /\ ThrowE(r, "DealCreationFailed")
        /\ deals' \in {deals, Append(deals, DealE(r))}
        /\ UNCHANGED <<deal, idx>>
  /\ UNCHANGED <<live, req, items, enriched, contact, order, attachFailed, xlink,
                 tracking, flag, result, crmContacts, newContacts, orders, ledger,
                 botOrders>>
  /\ UsesToken(r)
  /\ UNCHANGED <<botOrderId, client, hooks, carts>>

Attached(d, p) == [deals EXCEPT ![d].products = Append(@, p)]

\* The pc after line item idx[r] has been handled.
AfterAttach(r, loop, after) == IF idx[r] < Len(enriched[r]) THEN loop ELSE after

\* The loop with addProductToDeal outside a try/catch, as in the first
\* BotController.createOrder: a failed call ends the saga.
E_AttachUncaught(r) ==
  /\ r \in live /\ pc[r] = "E_attach"
  /\ Called(r, "attach")
  /\ \/ /\ deals' = Attached(deal[r], enriched[r][idx[r]])
        /\ pc' = [pc EXCEPT ![r] = AfterAttach(r, "E_attach", "E_patch")]
        /\ UNCHANGED <<attachFailed, err>>
     \/ /\ attachFailed' = [attachFailed EXCEPT ![r] = @ \cup {idx[r]}]
        /\ ThrowE(r, "AttachFailed")
        /\ UNCHANGED deals
  /\ idx' = [idx EXCEPT ![r] = @ + 1]
  /\ UNCHANGED <<live, req, items, enriched, contact, deal, order, xlink,
                 tracking, flag, result, crmContacts, newContacts, orders, ledger,
                 botOrders>>
  /\ UsesToken(r)
  /\ UNCHANGED <<botOrderId, client, hooks, carts>>

\* createOrderInCRM step 4: addProductToDeal in a try/catch per product.
E_Attach(r) ==
  /\ r \in live /\ pc[r] = "E_attach"
  /\ Called(r, "attach")
  /\ \/ deals' = Attached(deal[r], enriched[r][idx[r]]) /\ UNCHANGED attachFailed
     \/ attachFailed' = [attachFailed EXCEPT ![r] = @ \cup {idx[r]}] /\ UNCHANGED deals
  /\ idx' = [idx EXCEPT ![r] = @ + 1]
  /\ pc' = [pc EXCEPT ![r] = AfterAttach(r, "E_attach", "E_patch")]
  /\ UNCHANGED <<live, req, items, enriched, contact, deal, order, xlink,
                 tracking, flag, err, result, crmContacts, newContacts, orders, ledger,
                 botOrders>>
  /\ UsesToken(r)
  /\ UNCHANGED <<botOrderId, client, hooks, carts>>

\* --- steps 3 to 5: cross-link, tracking row, sync log
Synced(o, d, c) ==
  [orders EXCEPT ![o].sendpulseDealId = d, ![o].sendpulseContactId = c,
                 ![o].syncStatus = "SYNCED"]

\* The PATCH with its error rethrown instead of logged.
E_PatchRethrows(r) ==
  /\ r \in live /\ pc[r] = "E_patch"
  /\ Called(r, "patchSync")
  /\ \/ /\ orders' = Synced(order[r], deal[r], contact[r])
        /\ xlink' = [xlink EXCEPT ![r] = "ok"]
        /\ pc' = [pc EXCEPT ![r] = "E_storeMapping"]
        /\ UNCHANGED err
     \/ /\ UNCHANGED orders
        /\ xlink' = [xlink EXCEPT ![r] = "failed"]
        /\ ThrowE(r, "CrossLinkFailed")
  /\ UNCHANGED <<live, req, items, enriched, contact, deal, order, idx, attachFailed,
                 tracking, flag, result, crmContacts, newContacts, deals, ledger,
                 botOrders>>
  /\ UNCHANGED <<accessToken, botOrderId, client, hooks, carts>>

\* updateEcommerceOrderWithCrmIds: PATCH sync-data; an error is logged only.
E_Patch(r) ==
  /\ r \in live /\ pc[r] = "E_patch"
  /\ Called(r, "patchSync")
  /\ \/ /\ orders' = Synced(order[r], deal[r], contact[r])
        /\ xlink' = [xlink EXCEPT ![r] = "ok"]
     \/ /\ UNCHANGED orders
        /\ xlink' = [xlink EXCEPT ![r] = "failed"]
  /\ pc' = [pc EXCEPT ![r] = "E_storeMapping"]
  /\ UNCHANGED <<live, req, items, enriched, contact, deal, order, idx, attachFailed,
                 tracking, flag, err, result, crmContacts, newContacts, deals, ledger,
                 botOrders>>
  /\ UNCHANGED <<accessToken, botOrderId, client, hooks, carts>>

BotOrderRow(r) ==
  [ecommerceOrderId |-> order[r], sendpulseDealId |-> deal[r],
   sendpulseContactId |-> contact[r]]

\* The tracking-row write with its error rethrown instead of logged.
E_StoreMappingRethrows(r) ==
  /\ r \in live /\ pc[r] = "E_storeMapping"
  /\ Called(r, "tracking")
  /\ \/ /\ botOrders' = Append(botOrders, BotOrderRow(r))
        /\ tracking' = [tracking EXCEPT ![r] = "ok"]
        /\ pc' = [pc EXCEPT ![r] = "E_logSync"]
        /\ UNCHANGED err
     \/ /\ UNCHANGED botOrders
        /\ tracking' = [tracking EXCEPT ![r] = "failed"]
        /\ ThrowE(r, "TrackingFailed")
  /\ UNCHANGED <<live, req, items, enriched, contact, deal, order, idx, attachFailed, xlink,
                 flag, result, crmContacts, newContacts, deals, orders, ledger>>
  /\ UNCHANGED <<accessToken, botOrderId, client, hooks, carts>>

\* storeBotOrderMapping: dbService.createBotOrder in a try/catch.  The
\* DatabaseService of this repository defines saveBotOrder and no
\* createBotOrder, so with it the call throws; either way the error is logged
\* only.
E_StoreMapping(r) ==
  /\ r \in live /\ pc[r] = "E_storeMapping"
  /\ Called(r, "tracking")
  /\ \/ /\ botOrders' = Append(botOrders, BotOrderRow(r))
        /\ tracking' = [tracking EXCEPT ![r] = "ok"]
     \/ /\ UNCHANGED botOrders
        /\ tracking' = [tracking EXCEPT ![r] = "failed"]
  /\ pc' = [pc EXCEPT ![r] = "E_logSync"]
  /\ UNCHANGED <<live, req, items, enriched, contact, deal, order, idx, attachFailed, xlink,
                 flag, err, result, crmContacts, newContacts, deals, orders, ledger>>
  /\ UNCHANGED <<accessToken, botOrderId, client, hooks, carts>>

LogData(o, d, syncType, status) ==
  [orderId |-> o, sendpulseDealId |-> d, syncType |-> syncType,
   syncStatus |-> status]

\* A sync log that keeps one row for each type of synchronisation: a new row
\* takes the place of the rows of its type.
LogOrderSyncUpserts(o, d, syncType, status) ==
  IF o # 0
  THEN {Append(SelectSeq(ledger, LAMBDA e : e.syncType # syncType),
               LogData(o, d, syncType, status)), ledger}
  ELSE {ledger}

\* logOrderSync: the row is posted only for a non-null order id, and a failed
\* post is logged only.  The ledgers it can leave behind.
LogOrderSync(o, d, syncType, status) ==
  IF o # 0 THEN {Append(ledger, LogData(o, d, syncType, status)), ledger}
  ELSE {ledger}

\* The ledger write with its error rethrown instead of logged.
E_LogSyncRethrows(r) ==
  /\ r \in live /\ pc[r] = "E_logSync"
  /\ Called(r, "syncLog")
  /\ \/ /\ ledger' = Append(ledger, LogData(order[r], deal[r], "CREATE", "SUCCESS"))
        /\ pc' = [pc EXCEPT ![r] = "E_return"]
        /\ UNCHANGED err
     \/ /\ UNCHANGED ledger
        /\ ThrowE(r, "LedgerWriteFailed")
  /\ UNCHANGED <<live, req, items, enriched, contact, deal, order, idx, attachFailed, xlink,
                 tracking, flag, result, crmContacts, newContacts, deals, orders,
                 botOrders>>
  /\ UNCHANGED <<accessToken, botOrderId, client, hooks, carts>>

E_LogSync(r) ==
  /\ r \in live /\ pc[r] = "E_logSync"
  /\ Called(r, "syncLog")
  /\ ledger' \in LogOrderSync(order[r], deal[r], "CREATE", "SUCCESS")
  /\ pc' = [pc EXCEPT ![r] = "E_return"]
  /\ UNCHANGED <<live, req, items, enriched, contact, deal, order, idx, attachFailed, xlink,
                 tracking, flag, err, result, crmContacts, newContacts, deals, orders,
                 botOrders>>
  /\ UNCHANGED <<accessToken, botOrderId, client, hooks, carts>>

\* --- step 6 and the return
ResultE(r) ==
  [success |-> TRUE, status |-> "created",
   message |-> "Order created successfully in all systems",
   ecommerceOrderId |-> order[r], crmOrderId |-> deal[r],
   contactId |-> contact[r], totalAmount |-> req[r].sum]

\* A return that awaits the has_active_order update instead of scheduling it.
E_ReturnAfterFlag(r) ==
  /\ r \in live /\ pc[r] = "E_return"
  /\ \/ /\ flag[r] = "none"
        /\ flag' \in {[flag EXCEPT ![r] = "set"], [flag EXCEPT ![r] = "failed"]}
        /\ UNCHANGED <<result, pc>>
     \/ /\ flag[r] # "none"
        /\ result' = [result EXCEPT ![r] = ResultE(r)]
        /\ pc' = [pc EXCEPT ![r] = "returned"]
        /\ UNCHANGED flag
  /\ UNCHANGED <<live, req, items, enriched, contact, deal, order, idx, attachFailed, xlink,
                 tracking, err, calls, world>>
  /\ UsesToken(r)
  /\ UNCHANGED <<botOrderId, client, hooks, carts>>

\* setImmediate schedules the has_active_order update; the result is built
\* and returned in the same turn.
E_Return(r) ==
  /\ r \in live /\ pc[r] = "E_return"
  /\ flag' = [flag EXCEPT ![r] = "scheduled"]
  /\ result' = [result EXCEPT ![r] = ResultE(r)]
  /\ pc' = [pc EXCEPT ![r] = "returned"]
  /\ UNCHANGED <<live, req, items, enriched, contact, deal, order, idx, attachFailed, xlink,
                 tracking, err, calls, world>>
  /\ UNCHANGED <<accessToken, botOrderId, client, hooks, carts>>

\* The setImmediate callback: updateActiveOrderVariable -> setBotVariable, which
\* returns {success: false} on an error; a throw is caught by the callback.
E_SetActiveOrderFlag(r) ==
  /\ r \in live /\ flag[r] = "scheduled"
  /\ Called(r, "setVariable")
  /\ flag' \in {[flag EXCEPT ![r] = "set"], [flag EXCEPT ![r] = "failed"]}
  /\ UNCHANGED <<live, req, pc, items, enriched, contact, deal, order, idx, attachFailed,
                 xlink, tracking, err, result, world>>
  /\ UsesToken(r)
  /\ UNCHANGED <<botOrderId, client, hooks, carts>>

\* The catch block of createTelegramOrderComplete: logOrderSync(null, null,
\* 'CREATE', 'FAILED', message), then the error is rethrown to the caller.
E_Catch(r) ==
  /\ r \in live /\ pc[r] = "E_catch"
  /\ ledger' \in LogOrderSync(0, 0, "CREATE", "FAILED")
  /\ pc' = [pc EXCEPT ![r] = "failed"]
  /\ UNCHANGED <<live, req, items, enriched, contact, deal, order, idx, attachFailed, xlink,
                 tracking, flag, err, result, calls, crmContacts, newContacts, deals, orders,
                 botOrders>>
  /\ UNCHANGED <<accessToken, botOrderId, client, hooks, carts>>

\* ------------------------------- POST /telegram-order and BotController
\* A throw that reaches the route's catch block: an error response.
ThrowB(r, e) ==
  /\ pc' = [pc EXCEPT ![r] = "failed"]
  /\ err' = [err EXCEPT ![r] = e]

\* The route's validation of the products array and of each quantity.
RouteError(rq) ==
  IF rq.products = <<>> THEN "MissingProducts"
  ELSE IF \E i \in 1..Len(rq.products) : rq.products[i].quantity <= 0
       THEN "InvalidQuantity"
       ELSE "none"

\* req.body.botOrderId || `tg_${Date.now()}`
BotOrderIdB(t, rq) == IF rq.botOrderId # <<>> THEN rq.botOrderId ELSE <<"tg", t>>

\* deliveryInfo of processedOrder: the defaults of the route under the fields
\* the request gives.
DeliveryB(rq) ==
  [city |-> OrS(rq.city, "Nyon"), station |-> OrS(rq.station, "Nyon"),
   canton |-> OrS(rq.canton, "VD")]

B_Route(r) ==
  /\ r \in live /\ pc[r] = "start" /\ req[r].variant = "B"
  /\ IF RouteError(req[r]) = "none"
     THEN /\ pc' = [pc EXCEPT ![r] = "B_enrich"]
          /\ \E t \in StartTimes(r) :
               botOrderId' = [botOrderId EXCEPT ![r] = BotOrderIdB(t, req[r])]
          /\ UNCHANGED err
     ELSE ThrowB(r, RouteError(req[r])) /\ UNCHANGED botOrderId
  /\ UNCHANGED <<live, req, items, enriched, contact, deal, order, idx, attachFailed, xlink,
                 tracking, flag, result, calls, world>>
  /\ UNCHANGED <<accessToken, client, hooks, carts>>

EnrichOneB(p) ==
  [id |-> p.id, sendpulseId |-> ProductMapping[p.id], quantity |-> p.quantity,
   unitPrice |-> Catalog[p.id], totalPrice |-> Catalog[p.id] * p.quantity,
   name |-> ProductNameLength]

\* enrichProductsWithPricing of BotController: getEcommerceProduct throws for
\* an absent product, a missing mapping throws.
EnrichProductsWithPricingB(products) ==
  LET bad == {i \in 1..Len(products) : EnrichError(products[i]) # "none"}
  IN IF bad = {}
     THEN [error |-> "none", products |-> [i \in 1..Len(products) |-> EnrichOneB(products[i])]]
     ELSE [error |-> EnrichError(products[CHOOSE i \in bad : \A j \in bad : i <= j]),
           products |-> <<>>]

\* createOrder step 1.
B_Enrich(r) ==
  /\ r \in live /\ pc[r] = "B_enrich"
  /\ LET e == EnrichProductsWithPricingB(req[r].products)
     IN IF e.error = "none"
        THEN /\ enriched' = [enriched EXCEPT ![r] = e.products]
             /\ pc' = [pc EXCEPT ![r] = "B_findContact"]
             /\ UNCHANGED err
        ELSE ThrowB(r, e.error) /\ UNCHANGED enriched
  /\ UNCHANGED <<live, req, items, contact, deal, order, idx, attachFailed, xlink, tracking,
                 flag, result, calls, world>>
  /\ UNCHANGED <<accessToken, botOrderId, client, hooks, carts>>

\* createOrder step 2: the contact must exist under the messenger id.
B_FindContact(r) ==
  /\ r \in live /\ pc[r] = "B_findContact"
  /\ \/ \E c \in ByExternalId(req[r].contact_id) :
          /\ contact' = [contact EXCEPT ![r] = c.id]
          /\ pc' = [pc EXCEPT ![r] = "B_createDeal"]
          /\ UNCHANGED <<err, calls>>
     \/ /\ ByExternalId(req[r].contact_id) = {}
        /\ ThrowB(r, "ContactNotFound")
        /\ UNCHANGED <<contact, calls>>
     \/ /\ ThrowB(r, "ContactResolutionFailed")
        /\ Called(r, "lookupFailed")
        /\ UNCHANGED contact
  /\ UNCHANGED <<live, req, items, enriched, deal, order, idx, attachFailed, xlink, tracking,
                 flag, result, world>>
  /\ UsesToken(r)
  /\ UNCHANGED <<botOrderId, client, hooks, carts>>

\* price of the deal createOrder submits.
DealPriceB(rq, ps) == Or(ParseFloat(rq.attrSum), ProductsTotal(ps))

\* dealData of createOrder as createDeal submits it: the title is the
\* order_text of the bot or the names of the products, the product list and the
\* name of the contact are built from the products and the contact.
DealB(r) ==
  NewDeal(contact[r], DealPriceB(req[r], enriched[r]), DeliveryB(req[r]),
          OrT(BotText("order_text", req[r].order_text), NamesTitle(enriched[r])),
          (922108 :> ProductList(enriched[r])) @@ (923274 :> ContactName))

\* createOrder step 3.
B_CreateDeal(r) ==
  /\ r \in live /\ pc[r] = "B_createDeal"
  /\ Called(r, "createDeal")
  /\ \/ /\ deals' = Append(deals, DealB(r))
        /\ deal' = [deal EXCEPT ![r] = Len(deals) + 1]
        /\ idx' = [idx EXCEPT ![r] = 1]
        /\ pc' = [pc EXCEPT ![r] = AfterDeal(r, "B_attach", "B_postOrder")]
        /\ UNCHANGED err
     \/ /\ ThrowB(r, "DealCreationFailed")
        /\ deals' \in {deals, Append(deals, DealB(r))}
        /\ UNCHANGED <<deal, idx>>
  /\ UNCHANGED <<live, req, items, enriched, contact, order, attachFailed, xlink,
                 tracking, flag, result, crmContacts, newContacts, orders, ledger,
                 botOrders>>
  /\ UsesToken(r)
  /\ UNCHANGED <<botOrderId, client, hooks, carts>>

\* createOrder step 4: addProductToDeal in a try/catch per product.
B_Attach(r) ==
  /\ r \in live /\ pc[r] = "B_attach"
  /\ Called(r, "attach")
  /\ \/ deals' = Attached(deal[r], enriched[r][idx[r]]) /\ UNCHANGED attachFailed
     \/ attachFailed' = [attachFailed EXCEPT ![r] = @ \cup {idx[r]}] /\ UNCHANGED deals
  /\ idx' = [idx EXCEPT ![r] = @ + 1]
  /\ pc' = [pc EXCEPT ![r] = AfterAttach(r, "B_attach", "B_postOrder")]
  /\ UNCHANGED <<live, req, items, enriched, contact, deal, order, xlink,
                 tracking, flag, err, result, crmContacts, newContacts, orders, ledger,
                 botOrders>>
  /\ UsesToken(r)
  /\ UNCHANGED <<botOrderId, client, hooks, carts>>

ItemOf(p) == [productId |-> p.id, quantity |-> p.quantity, unitPrice |-> p.unitPrice]

\* stationMapping of BotController (two of its rows) and its default station.
StationMappingB == ("Geneva" :> 2) @@ ("Lausanne" :> 5)
MapStationNameToIdB(st) ==
  IF st \in DOMAIN StationMappingB THEN StationMappingB[st] ELSE 1

OrderPayloadB(r) ==
  [externalOrderId |-> botOrderId[r],
   totalAmount |-> ProductsTotal(enriched[r]),
   items |-> [i \in 1..Len(enriched[r]) |-> ItemOf(enriched[r][i])],
   sendpulseDealId |-> 0, sendpulseContactId |-> 0, syncStatus |-> "PENDING",
   deliveryType |-> "RAILWAY_STATION",
   deliveryStationId |-> MapStationNameToIdB(DeliveryB(req[r]).station),
   notesAdmin |-> "from bot"]

\* A createOrder that compensates: when the order cannot be created the deal is
\* blanked.
B_PostOrderCompensates(r) ==
  /\ r \in live /\ pc[r] = "B_postOrder"
  /\ Called(r, "createOrder")
  /\ \/ /\ orders' = Append(orders, OrderPayloadB(r))
        /\ order' = [order EXCEPT ![r] = Len(orders) + 1]
        /\ items' = [items EXCEPT ![r] = OrderPayloadB(r).items]
        /\ pc' = [pc EXCEPT ![r] = "B_patch"]
        /\ UNCHANGED deals
     \/ /\ UNCHANGED <<orders, order, items>>
        /\ deals' = [deals EXCEPT ![deal[r]] = NewDeal(0, 0, NoFlat, Txt("none", 0), <<>>)]
        /\ pc' = [pc EXCEPT ![r] = "B_return"]
  /\ UNCHANGED <<live, req, enriched, contact, deal, idx, attachFailed, xlink, tracking, flag,
                 err, result, crmContacts, newContacts, ledger, botOrders>>
  /\ UNCHANGED <<accessToken, botOrderId, client, hooks, carts>>

\* createOrder step 5: POST /api/orders/enhanced inside a try block whose
\* catch only logs.
B_PostOrder(r) ==
  /\ r \in live /\ pc[r] = "B_postOrder"
  /\ Called(r, "createOrder")
  /\ \/ /\ orders' = Append(orders, OrderPayloadB(r))
        /\ order' = [order EXCEPT ![r] = Len(orders) + 1]
        /\ items' = [items EXCEPT ![r] = OrderPayloadB(r).items]
        /\ pc' = [pc EXCEPT ![r] = "B_patch"]
     \/ /\ UNCHANGED <<orders, order, items>>
        /\ pc' = [pc EXCEPT ![r] = "B_return"]
  /\ UNCHANGED <<live, req, enriched, contact, deal, idx, attachFailed, xlink, tracking, flag,
                 err, result, crmContacts, newContacts, deals, ledger, botOrders>>
  /\ UNCHANGED <<accessToken, botOrderId, client, hooks, carts>>

\* The PATCH sync-data of the same try block.
B_Patch(r) ==
  /\ r \in live /\ pc[r] = "B_patch"
  /\ Called(r, "patchSync")
  /\ \/ /\ orders' = Synced(order[r], deal[r], contact[r])
        /\ xlink' = [xlink EXCEPT ![r] = "ok"]
     \/ /\ UNCHANGED orders
        /\ xlink' = [xlink EXCEPT ![r] = "failed"]
  /\ pc' = [pc EXCEPT ![r] = "B_return"]
  /\ UNCHANGED <<live, req, items, enriched, contact, deal, order, idx, attachFailed,
                 tracking, flag, err, result, crmContacts, newContacts, deals, ledger,
                 botOrders>>
  /\ UNCHANGED <<accessToken, botOrderId, client, hooks, carts>>

ResultB(r) ==
  [success |-> TRUE, status |-> "created",
   message |-> "Telegram order successfully created in SendPulse CRM with attributes",
   ecommerceOrderId |-> 0, crmOrderId |-> deal[r], contactId |-> contact[r],
   totalAmount |-> Or(ParseFloat(req[r].attrSum), ProductsTotal(enriched[r]))]

B_Return(r) ==
  /\ r \in live /\ pc[r] = "B_return"
  /\ result' = [result EXCEPT ![r] = ResultB(r)]
  /\ pc' = [pc EXCEPT ![r] = "returned"]
  /\ UNCHANGED <<live, req, items, enriched, contact, deal, order, idx, attachFailed, xlink,
                 tracking, flag, err, calls, world>>
  /\ UNCHANGED <<accessToken, botOrderId, client, hooks, carts>>

\* The steps of BotController.createOrder.
CreateOrder(r) ==
  \/ B_Enrich(r) \/ B_FindContact(r) \/ B_CreateDeal(r)
  \/ B_Attach(r) \/ B_PostOrder(r) \/ B_Patch(r) \/ B_Return(r)

BotController(r) == B_Route(r) \/ CreateOrder(r)

Enhanced(r) ==
  \/ E_MapItems(r) \/ E_TestConnection(r) \/ E_PostOrder(r)
  \/ E_FindContact(r) \/ E_FindAgain(r) \/ E_FindByPhone(r)
  \/ E_LookupOrCreate(r) \/ E_CreateContact(r)
  \/ E_Enrich(r) \/ E_CreateDeal(r) \/ E_Attach(r)
  \/ E_Patch(r) \/ E_StoreMapping(r) \/ E_LogSync(r)
  \/ E_Return(r) \/ E_SetActiveOrderFlag(r) \/ E_Catch(r)

Next == \E r \in Runs : Enhanced(r) \/ BotController(r)

Spec == Init /\ [][Next]_vars

\* Two requests handled at once, each for one unit of the mapped product.
PairRequests ==
  {rq \in Requests :
     /\ rq.products = <<[id |-> GoodProduct, quantity |-> 1]>>
     /\ rq.cart_total = 0 /\ rq.sum = 0 /\ rq.attrSum = 0}

InitPair ==
  /\ live = Runs
  /\ crmContacts \in InitialCrm
  /\ req \in [Runs -> PairRequests]
  /\ InitRun

SpecPair == InitPair /\ [][Next]_vars

\* One request for one unit of the mapped product, with any delivery.  The
\* order data of the enhanced saga may name a station at the top level too.
FlatStations(rq) == IF rq.variant = "E" THEN {"none", "Geneva"} ELSE {"none"}

StationRequests ==
  UNION {{[rq EXCEPT !.station = st, !.city = ci, !.canton = ca, !.flat.station = fs] :
            st \in Stations, ci \in Cities, ca \in Cantons, fs \in FlatStations(rq)} :
         rq \in PairRequests}

InitStation ==
  /\ live = {"r1"}
  /\ crmContacts \in InitialCrm
  /\ \E rq \in StationRequests : req = [r \in Runs |-> rq]
  /\ InitRun

SpecStation == InitStation /\ [][Next]_vars

\* One request for some units of the mapped product, with any texts of the
\* bot and with an orderAttributes.sum that may be a text and no number.
DealRequests ==
  UNION {{[rq EXCEPT !.attrSum = a, !.fullname = fn, !.order_text = ot,
                     !.cart_products = cp,
                     !.products = [i \in 1..k |-> [id |-> GoodProduct, quantity |-> 1]]] :
            a \in Declared \cup {Unparseable}, fn \in FullnameLengths,
            ot \in OrderTextLengths, cp \in CartProductsLengths, k \in 1..MaxItems} :
         rq \in PairRequests}

InitDeal ==
  /\ live = {"r1"}
  /\ crmContacts \in InitialCrm
  /\ \E rq \in DealRequests : req = [r \in Runs |-> rq]
  /\ InitRun

SpecDeal == InitDeal /\ [][Next]_vars

\* ------------------------------------ the axios client of SendPulseCRMService
\* Time is counted in seconds.  this.client sends every CRM request of the
\* enhanced saga; a handler of a response or of a call runs to its next await
\* in one step.
saga == <<live, req, pc, items, enriched, contact, deal, order, idx, attachFailed,
          xlink, tracking, flag, err, result, calls, botOrderId, world>>

\* The seconds taken off the lifetime of a token.
Buffer == 60
\* The lifetime of a token whose answer names none.
DefaultExpiresIn == 3600
\* expires_in of an answer of the authentication endpoint; 0 = not given.
ExpiresIn == {0, Buffer, 3 * Buffer}

\* parseInt(authResponse.data.expires_in) || 3600
ParsedExpiresIn(e) == Or(e, DefaultExpiresIn)

\* A test of the cached token that leaves the expiry time out.
TokenValidIgnoringExpiry(v) == accessToken[v] # "none"

\* The test at the head of ensureValidToken.
TokenValid(v) ==
  accessToken[v] # "none" /\ tokenExpiry[v] # 0 /\ now < tokenExpiry[v]

\* ensureValidToken after a good answer: the token and its buffered expiry.
SetToken(e) ==
  /\ accessToken' = [accessToken EXCEPT !["E"] = "cached"]
  /\ tokenExpiry' = [tokenExpiry EXCEPT !["E"] = now + (ParsedExpiresIn(e) - Buffer)]
  /\ issued' = issued + 1

\* The request goes out with the token that is cached now.
Sent(c, token) ==
  http' = [http EXCEPT ![c].pc = "inflight", ![c].headers = Append(@, token)]

\* The request waits for the authentication call made for it.
Authenticating(c, at) ==
  http' = [http EXCEPT ![c].pc = at, ![c].auth = @ + 1]

\* The request interceptor: ensureValidToken, then the Authorization header.
C_Request(c) ==
  /\ http[c].pc = "idle"
  /\ IF TokenValid("E") THEN Sent(c, issued) ELSE Authenticating(c, "auth")
  /\ UNCHANGED <<accessToken, tokenExpiry, now, issued, saga, hooks, carts>>

\* The answer to the authentication call of the request interceptor: the
\* request goes out with the new token, or the call throws and the request is
\* rejected unsent.
C_AuthResponse(c) ==
  /\ http[c].pc = "auth"
  /\ \/ /\ \E e \in ExpiresIn : SetToken(e)
        /\ Sent(c, issued + 1)
     \/ /\ http' = [http EXCEPT ![c].pc = "rejected"]
        /\ UNCHANGED <<accessToken, tokenExpiry, issued>>
  /\ UNCHANGED <<now, saga, hooks, carts>>

\* A response interceptor that asks for a new token and sends the request
\* again on every 401.
C_ResponseRetriesAlways(c) ==
  /\ http[c].pc = "inflight"
  /\ \/ /\ http' = [http EXCEPT ![c].pc = "resolved", ![c].status = 200]
        /\ UNCHANGED <<accessToken, tokenExpiry>>
     \/ /\ http' = [http EXCEPT ![c].pc = "rejected", ![c].status = 500]
        /\ UNCHANGED <<accessToken, tokenExpiry>>
     \/ /\ accessToken' = [accessToken EXCEPT !["E"] = "none"]
        /\ tokenExpiry' = [tokenExpiry EXCEPT !["E"] = 0]
        /\ IF Len(http[c].headers) < MaxSends
           THEN http' = [http EXCEPT ![c].pc = "reauth", ![c].retried = TRUE,
                                     ![c].auth = @ + 1, ![c].status = 401]
           ELSE http' = [http EXCEPT ![c].pc = "rejected", ![c].status = 401]
  /\ UNCHANGED <<now, issued, saga, hooks, carts>>

\* The response interceptor: a response is passed on, an error is rejected; a
\* 401 clears the cached token and, when the config is not marked _retried,
\* marks it and calls ensureValidToken, which finds no token.
C_Response(c) ==
  /\ http[c].pc = "inflight"
  /\ \/ /\ http' = [http EXCEPT ![c].pc = "resolved", ![c].status = 200]
        /\ UNCHANGED <<accessToken, tokenExpiry>>
     \/ /\ http' = [http EXCEPT ![c].pc = "rejected", ![c].status = 500]
        /\ UNCHANGED <<accessToken, tokenExpiry>>
     \/ /\ accessToken' = [accessToken EXCEPT !["E"] = "none"]
        /\ tokenExpiry' = [tokenExpiry EXCEPT !["E"] = 0]
        /\ IF ~http[c].retried
           THEN http' = [http EXCEPT ![c].pc = "reauth", ![c].retried = TRUE,
                                     ![c].auth = @ + 1, ![c].status = 401]
           ELSE http' = [http EXCEPT ![c].pc = "rejected", ![c].status = 401]
  /\ UNCHANGED <<now, issued, saga, hooks, carts>>

\* The answer to the authentication call of the response interceptor: with a
\* new token this.client.request(error.config) runs the request interceptor
\* again, whose ensureValidToken tests the token just cached; without one the
\* request is rejected.
C_ReauthResponse(c) ==
  /\ http[c].pc = "reauth"
  /\ UNCHANGED <<now, saga, hooks, carts>>
  /\ \/ /\ \E e \in ExpiresIn : SetToken(e)
        /\ IF TokenValid("E")' THEN Sent(c, issued + 1) ELSE Authenticating(c, "auth")
     \/ /\ http' = [http EXCEPT ![c].pc = "rejected"]
        /\ UNCHANGED <<accessToken, tokenExpiry, issued>>

\* Time passes.
C_Tick ==
  /\ now < MaxTicks * Buffer
  /\ now' = now + Buffer
  /\ UNCHANGED <<accessToken, tokenExpiry, http, issued, saga, hooks, carts>>

NextClient ==
  \/ \E c \in Reqs :
       C_Request(c) \/ C_AuthResponse(c) \/ C_Response(c) \/ C_ReauthResponse(c)
  \/ C_Tick

\* No order is handled; the CRM requests of Reqs go through the client.
InitClient ==
  /\ live = {}
  /\ crmContacts = {}
  /\ req = [r \in Runs |-> CHOOSE rq \in PairRequests : TRUE]
  /\ InitRun

SpecClient == InitClient /\ [][NextClient]_vars

\* ------------------------------------------- POST /api/webhook/sendpulse
\* The handler of a webhook awaits the ecommerce store twice: the GET of the
\* order of the deal and the PATCH of its status.
others == <<accessToken, client, saga, carts>>

\* mapping of mapStepNameToOrderStatus (two of its rows).
StepMapping == ("Pidtverdzheno" :> "CONFIRMED") @@ ("Vykonano" :> "DELIVERED")

\* mapping[stepName] || null; "none" stands for null.
MapStepNameToOrderStatus(stepName) ==
  IF stepName \in DOMAIN StepMapping THEN StepMapping[stepName] ELSE "none"

Answered(w, message) ==
  hook' = [hook EXCEPT ![w].pc = "answered", ![w].message = message]

\* The same webhook has been answered with 'Order status updated'.
Redelivery(d, s) ==
  \E v \in Hooks :
    /\ hook[v].pc = "answered" /\ hook[v].message = "Order status updated"
    /\ hook[v].deal_id = d /\ hook[v].stepName = s

\* The webhook arrives: the checks of deal_id and stepName_deal, the mapping
\* of the step name, and the GET of the order of the deal.
W_Receive(w) ==
  /\ hook[w].pc = "idle"
  /\ \E d \in HookDeals, s \in StepNames :
       LET h == [hook[w] EXCEPT !.deal_id = d, !.stepName = s,
                                !.status = MapStepNameToOrderStatus(s),
                                !.redelivered = Redelivery(d, s)]
           answer(message) == [h EXCEPT !.pc = "answered", !.message = message]
       IN hook' = [hook EXCEPT ![w] =
            IF d = "none" THEN answer("Missing deal_id")
            ELSE IF s = "none" THEN answer("Missing stepName_deal")
            ELSE IF h.status = "none" THEN answer("Unknown step name")
            ELSE [h EXCEPT !.pc = "find"]]
  /\ UNCHANGED <<shopStatus, others>>

\* A handler that sends the status of every webhook whose order it finds.
W_FoundAlwaysUpdates(w) ==
  /\ hook[w].pc = "find"
  /\ \/ Answered(w, "Failed to update order")
     \/ /\ hook[w].deal_id \notin ShopDeals
        /\ Answered(w, "Order not found")
     \/ /\ hook[w].deal_id \in ShopDeals
        /\ hook' = [hook EXCEPT ![w].pc = "patch", ![w].sent = @ + 1,
                                ![w].found = shopStatus[hook[w].deal_id]]
  /\ UNCHANGED <<shopStatus, others>>

\* The answer to the GET: an error, no order, or the order; the PATCH is sent
\* when the status of the order is not the mapped status.
W_Found(w) ==
  /\ hook[w].pc = "find"
  /\ \/ Answered(w, "Failed to update order")
     \/ /\ hook[w].deal_id \notin ShopDeals
        /\ Answered(w, "Order not found")
     \/ /\ hook[w].deal_id \in ShopDeals
        /\ LET status == shopStatus[hook[w].deal_id]
           IN IF status # hook[w].status
              THEN hook' = [hook EXCEPT ![w].pc = "patch", ![w].sent = @ + 1,
                                        ![w].found = status]
              ELSE hook' = [hook EXCEPT ![w].pc = "answered", ![w].found = status,
                                        ![w].message = "Status already up to date"]
  /\ UNCHANGED <<shopStatus, others>>

\* The answer to the PATCH: the store has the new status, or the call threw
\* (the store may have the new status all the same).
W_Patched(w) ==
  /\ hook[w].pc = "patch"
  /\ LET updated == [shopStatus EXCEPT ![hook[w].deal_id] = hook[w].status]
     IN \/ /\ shopStatus' = updated
           /\ Answered(w, "Order status updated")
        \/ /\ shopStatus' \in {shopStatus, updated}
           /\ Answered(w, "Failed to update order")
  /\ UNCHANGED others

NextWebhook == \E w \in Hooks : W_Receive(w) \/ W_Found(w) \/ W_Patched(w)

SpecWebhook == InitClient /\ [][NextWebhook]_vars

\* ------------------------------------- POST /cart-add and POST /cart-checkout
\* The cart of one contact is followed; bot_cart_items has a serial id as its
\* only key.  Every call of the database is one step.
RowsOf(productId) == {row \in cartItems : row.productId = productId}

RECURSIVE SortRows(_)
\* findMany with orderBy createdAt asc.
SortRows(rows) ==
  IF rows = {} THEN <<>>
  ELSE LET first == CHOOSE x \in rows : \A y \in rows : x.id <= y.id
       IN <<first>> \o SortRows(rows \ {first})

\* addToCart: findFirst for the contact and the product; the update or the
\* create is called with what it returns.
A_FindFirst(a) ==
  /\ add[a].pc = "idle"
  /\ \E p \in CartProducts :
       \/ /\ RowsOf(p) = {}
          /\ add' = [add EXCEPT ![a] = [pc |-> "create", productId |-> p, quantity |-> 1,
                                        existingItem |-> NoRow]]
       \/ \E row \in RowsOf(p) :
            add' = [add EXCEPT ![a] = [pc |-> "update", productId |-> p, quantity |-> 1,
                                       existingItem |-> row]]
  /\ UNCHANGED <<cartItems, rowSeq, co, accessToken, client, saga, hooks>>

\* botCartItem.create: a new row, or the call throws.
A_Create(a) ==
  /\ add[a].pc = "create"
  /\ \/ /\ cartItems' = cartItems \cup {[id |-> rowSeq, productId |-> add[a].productId,
                                         quantity |-> add[a].quantity]}
        /\ rowSeq' = rowSeq + 1
        /\ add' = [add EXCEPT ![a].pc = "getCart"]
     \/ /\ add' = [add EXCEPT ![a].pc = "failed"]
        /\ UNCHANGED <<cartItems, rowSeq>>
  /\ UNCHANGED <<co, accessToken, client, saga, hooks>>

\* botCartItem.update where id: the quantity read by findFirst plus the added
\* quantity; the call throws when the row is gone.
A_Update(a) ==
  /\ add[a].pc = "update"
  /\ LET mine == {row \in cartItems : row.id = add[a].existingItem.id}
         newQuantity == add[a].existingItem.quantity + add[a].quantity
     IN IF mine = {}
        THEN /\ add' = [add EXCEPT ![a].pc = "failed"]
             /\ UNCHANGED cartItems
        ELSE /\ cartItems' = (cartItems \ mine)
                                \cup {[row EXCEPT !.quantity = newQuantity] : row \in mine}
             /\ add' = [add EXCEPT ![a].pc = "getCart"]
  /\ UNCHANGED <<rowSeq, co, accessToken, client, saga, hooks>>

\* The route reads the cart again and answers.
A_GetCart(a) ==
  /\ add[a].pc = "getCart"
  /\ add' = [add EXCEPT ![a].pc = "answered"]
  /\ UNCHANGED <<cartItems, rowSeq, co, accessToken, client, saga, hooks>>

\* orderData of the checkout: the products are the rows getCart returned.
\* The delivery and the contact come with the request.
CartOrder(rows) ==
  LET base == CHOOSE rq \in PairRequests : rq.variant = "B" /\ rq.phone = "none"
      sorted == SortRows(rows)
  IN [base EXCEPT !.products = [i \in 1..Len(sorted) |->
                                  [id |-> sorted[i].productId,
                                   quantity |-> sorted[i].quantity]]]

\* getCart of the checkout: an empty cart is answered with 400, else
\* createOrder is called with the rows under the bot order id
\* `cart_${Date.now()}`.
CO_GetCart ==
  /\ co.pc = "idle" /\ live = {}
  /\ IF cartItems = {}
     THEN /\ co' = [co EXCEPT !.pc = "empty"]
          /\ UNCHANGED <<live, req, pc, botOrderId>>
     ELSE /\ co' = [co EXCEPT !.pc = "createOrder", !.items = cartItems]
          /\ live' = {"r1"}
          /\ req' = [req EXCEPT !["r1"] = CartOrder(cartItems)]
          /\ pc' = [pc EXCEPT !["r1"] = "B_enrich"]
          /\ botOrderId' = [botOrderId EXCEPT !["r1"] = <<"cart", 1>>]
  /\ UNCHANGED <<items, enriched, contact, deal, order, idx, attachFailed, xlink, tracking,
                 flag, err, result, calls, world>>
  /\ UNCHANGED <<cartItems, rowSeq, add, accessToken, client, hooks>>

\* createOrder has returned: clearCart deletes every row of the contact, or
\* the call throws.
CO_ClearCart ==
  /\ co.pc = "createOrder" /\ pc["r1"] = "returned"
  /\ \/ /\ cartItems' = {}
        /\ co' = [co EXCEPT !.pc = "answered", !.deleted = cartItems]
     \/ /\ co' = [co EXCEPT !.pc = "failed"]
        /\ UNCHANGED cartItems
  /\ UNCHANGED <<rowSeq, add, accessToken, client, saga, hooks>>

\* createOrder has thrown: the catch block answers with 500.
CO_Catch ==
  /\ co.pc = "createOrder" /\ pc["r1"] = "failed"
  /\ co' = [co EXCEPT !.pc = "failed"]
  /\ UNCHANGED <<cartItems, rowSeq, add, accessToken, client, saga, hooks>>

NextCart ==
  \/ \E a \in Adds : A_FindFirst(a) \/ A_Create(a) \/ A_Update(a) \/ A_GetCart(a)
  \/ CO_GetCart \/ CO_ClearCart \/ CO_Catch
  \/ \E r \in Runs : CreateOrder(r)

\* No order is handled until the checkout hands one to createOrder.
InitCart ==
  /\ live = {}
  /\ crmContacts \in InitialCrm
  /\ req = [r \in Runs |-> CHOOSE rq \in PairRequests : TRUE]
  /\ InitRun

SpecCart == InitCart /\ [][NextCart]_vars

\* =====================================================================
\* Properties
\* =====================================================================
Has(s, x) == \E i \in 1..Len(s) : s[i] = x
Count(s, x) == Cardinality({i \in 1..Len(s) : s[i] = x})
Done(r) == pc[r] \in {"returned", "failed"}
Aborted(r) == pc[r] \in {"E_catch", "failed"}

\* s without the positions in drop.
Without(s, drop) ==
  LET F[i \in 0..Len(s)] ==
        IF i = 0 THEN <<>>
        ELSE IF i \in drop THEN F[i - 1] ELSE Append(F[i - 1], s[i])
  IN F[Len(s)]

\* Some line item cannot be enriched: product absent, product unmapped, or
\* a quantity that is not positive.
EnrichmentFails(rq) ==
  \E i \in 1..Len(rq.products) :
    EnrichError(rq.products[i]) # "none" \/ rq.products[i].quantity <= 0

\* C1: when enrichment fails for any line item, the saga does not return a
\* result (it ends failed) and has issued neither a deal-creation nor an
\* ecommerce-order-creation request.
C1_EnrichmentFailureAborts ==
  \A r \in live :
    EnrichmentFails(req[r]) =>
      /\ pc[r] # "returned"
      /\ ~Has(calls[r], "createDeal")
      /\ ~Has(calls[r], "createOrder")

\* The ecommerce order creation was requested and failed after the deal of
\* the same run had been created.
OrderFailedAfterDeal(r) ==
  deal[r] # 0 /\ order[r] = 0 /\ Has(calls[r], "createOrder")

\* A result that reports partial success: not a failure, and its status or
\* message is not the one a fully successful run returns.
MarksPartialSuccess(res) ==
  /\ res.success
  /\ \/ res.status # "created"
     \/ res.message \notin
          {"Order created successfully in all systems",
           "Telegram order successfully created in SendPulse CRM with attributes"}

\* C2: when the ecommerce order creation fails after the deal was created,
\* the saga ends with a result, not an error; the result marks partial
\* success and carries the id of the deal.
C2_OrderFailureIsPartialSuccess ==
  \A r \in live :
    (OrderFailedAfterDeal(r) /\ Done(r)) =>
      /\ pc[r] = "returned"
      /\ result[r].crmOrderId = deal[r]
      /\ MarksPartialSuccess(result[r])

\* C3: when the ecommerce order creation fails after the deal was created,
\* the finished run has left a success entry for the deal and a failure
\* entry for the order in the sync ledger.
C3_LedgerRecordsBothOutcomes ==
  \A r \in live :
    (OrderFailedAfterDeal(r) /\ Done(r)) =>
      /\ \E i \in 1..Len(ledger) :
           ledger[i].sendpulseDealId = deal[r] /\ ledger[i].syncStatus = "SUCCESS"
      /\ \E i \in 1..Len(ledger) : ledger[i].syncStatus = "FAILED"

BothCreated(r) == order[r] # 0 /\ deal[r] # 0

\* What a caller and the ledger tell about a run: the outcome fields of its
\* result and the ledger entries of its order.
Observed(r) ==
  <<result[r].success, result[r].status, result[r].message,
    {<<ledger[i].syncType, ledger[i].syncStatus>> :
       i \in {j \in 1..Len(ledger) : ledger[j].orderId = order[r]}}>>

FullySuccessful(r) ==
  /\ pc[r] = "returned" /\ BothCreated(r)
  /\ xlink[r] = "ok" /\ attachFailed[r] = {}

\* C4: a returned run whose cross-link failed after both records were created
\* differs, in its result or in its ledger entries, from a fully successful
\* run of the same request.
C4_CrossLinkFailureDistinguishable ==
  \A r1, r2 \in live :
    ( /\ req[r1] = req[r2]
      /\ pc[r1] = "returned" /\ BothCreated(r1) /\ xlink[r1] = "failed"
      /\ FullySuccessful(r2) )
    => Observed(r1) # Observed(r2)

CrossLinkFailed(r) == xlink[r] = "failed" \/ tracking[r] = "failed"

\* C5: after a failed cross-link (the PATCH or the tracking row) the deal and
\* the ecommerce order of the run are still there, the run is not failed,
\* and a result it returns reports success.
C5_CrossLinkFailureKeepsOutcome ==
  \A r \in live :
    CrossLinkFailed(r) =>
      /\ order[r] \in 1..Len(orders)
      /\ deal[r] \in 1..Len(deals)
      /\ deals[deal[r]].contact = contact[r]
      /\ orders[order[r]].items = items[r]
      /\ ~Aborted(r) /\ err[r] = "none"
      /\ pc[r] = "returned" => result[r].success

C5_Witness ==
  \E r \in live :
    /\ xlink[r] = "failed" /\ tracking[r] = "failed"
    /\ pc[r] = "returned" /\ result[r].success
    /\ order[r] \in 1..Len(orders) /\ deal[r] \in 1..Len(deals)

AttachLoopOver(r) == deal[r] # 0 /\ pc[r] \notin {"E_attach", "B_attach"}

\* C6: a failed addProductToDeal does not fail the saga; the call is issued
\* for every line item, and the deal ends with exactly the items whose call
\* succeeded.
C6_AttachFailureIsTolerated ==
  \A r \in live :
    deal[r] # 0 =>
      /\ Count(calls[r], "attach") = idx[r] - 1
      /\ attachFailed[r] # {} => ~Aborted(r) /\ err[r] = "none"
      /\ AttachLoopOver(r) =>
           /\ Count(calls[r], "attach") = Len(enriched[r])
           /\ deals[deal[r]].products = Without(enriched[r], attachFailed[r])
      /\ pc[r] = "returned" => result[r].success

C6_Witness ==
  \E r \in live :
    /\ pc[r] = "returned" /\ result[r].success
    /\ Len(enriched[r]) = 3
    /\ Cardinality(attachFailed[r]) = 1
    /\ Len(deals[deal[r]].products) = 2
    /\ Count(calls[r], "attach") = 3

\* C7: once the order and the deal exist, no outcome of the tracking row, the
\* ledger write or the has_active_order update fails the run, and the result
\* is made of the ids of the primary records only and stays as returned.
C7_SideEffectsLeaveResult ==
  \A r \in live :
    (req[r].variant = "E" /\ BothCreated(r) /\ xlink[r] # "none") =>
      /\ ~Aborted(r) /\ err[r] = "none"
      /\ pc[r] = "returned" =>
           /\ result[r].success /\ result[r].status = "created"
           /\ result[r].ecommerceOrderId = order[r]
           /\ result[r].crmOrderId = deal[r]
           /\ result[r].contactId = contact[r]

C7_Witness ==
  \E r \in live :
    /\ pc[r] = "returned" /\ result[r].success
    /\ tracking[r] = "failed" /\ flag[r] = "failed"
    /\ ledger = <<>>

C9_OneContactPerExternalId ==
  /\ \A r1, r2 \in live :
       ( /\ req[r1].contact_id = req[r2].contact_id
         /\ contact[r1] # 0 /\ contact[r2] # 0 )
       => contact[r1] = contact[r2]
  /\ Cardinality(newContacts) <= 1

\* The line items the enrichment resolves for a request.
ResolvedLineItems(rq) == EnrichProductsWithPricing(rq.products).products

ValidMappedOrder(rq) == rq.products # <<>> /\ ~EnrichmentFails(rq)

OrderItems(r) == orders[order[r]].items
DealProducts(r) == deals[deal[r]].products

\* C11: every item of the ecommerce order and every product attached to the
\* deal is a catalog product priced at its catalog price.
C11_UnitPriceIsCatalogPrice ==
  \A r \in live :
    /\ order[r] # 0 =>
         \A i \in 1..Len(OrderItems(r)) :
           /\ OrderItems(r)[i].productId \in DOMAIN Catalog
           /\ OrderItems(r)[i].unitPrice = Catalog[OrderItems(r)[i].productId]
    /\ deal[r] # 0 =>
         \A i \in 1..Len(DealProducts(r)) :
           /\ DealProducts(r)[i].id \in DOMAIN Catalog
           /\ DealProducts(r)[i].unitPrice = Catalog[DealProducts(r)[i].id]

HasInvalidQuantity(rq) ==
  \E i \in 1..Len(rq.products) : rq.products[i].quantity <= 0

\* C12: a request with a quantity that is not positive is rejected with
\* InvalidQuantity: no item is mapped or enriched from it with another
\* quantity, no order and no deal is created, and no result is returned.
C12_InvalidQuantityRejected ==
  \A r \in live :
    HasInvalidQuantity(req[r]) =>
      /\ items[r] = <<>> /\ enriched[r] = <<>>
      /\ order[r] = 0 /\ deal[r] = 0
      /\ pc[r] # "returned"
      /\ Done(r) => err[r] = "InvalidQuantity"

Absent(p) == p.id \notin DOMAIN Catalog
Unmapped(p) == p.id \in DOMAIN Catalog /\ p.id \notin DOMAIN ProductMapping

\* C13: the resolver fails with ProductNotFound on an item whose catalog
\* product is absent and with ProductNotMapped on an item whose mapping is
\* absent; a list with such an item yields an error and no resolved items, and
\* a createOrder run on it ends failed with that error and nothing enriched.
C13_ResolverFailsOnMissingProduct ==
  \A r \in live :
    LET ps == req[r].products
        e == EnrichProductsWithPricing(ps)
    IN \A i \in 1..Len(ps) :
         /\ Absent(ps[i]) =>
              EnrichProductsWithPricing(<<ps[i]>>) =
                [error |-> "ProductNotFound", products |-> <<>>]
         /\ Unmapped(ps[i]) =>
              EnrichProductsWithPricing(<<ps[i]>>) =
                [error |-> "ProductNotMapped", products |-> <<>>]
         /\ (Absent(ps[i]) \/ Unmapped(ps[i])) =>
              /\ e.error \in {"ProductNotFound", "ProductNotMapped"}
              /\ e.products = <<>>
              /\ req[r].variant = "B" =>
                   /\ enriched[r] = <<>>
                   /\ pc[r] \in {"start", "B_enrich", "failed"}
                   /\ (pc[r] = "failed" /\ ~HasInvalidQuantity(req[r])) =>
                        err[r] = e.error

C13_Witness ==
  \E r \in live :
    /\ req[r].variant = "B" /\ pc[r] = "failed"
    /\ err[r] = "ProductNotMapped" /\ enriched[r] = <<>>
    /\ Len(req[r].products) = 3
    /\ \E i \in 1..3 : Absent(req[r].products[i])
    /\ ~Absent(req[r].products[1]) /\ ~Unmapped(req[r].products[1])

\* The requested station is in no row of the station table of the saga.
UnknownStation(rq) ==
  IF rq.variant = "E" THEN ~IsStationInMapping(RequestedStation(rq))
  ELSE DeliveryB(rq).station \notin DOMAIN StationMappingB

\* C14: an order for a station that no table row matches is created as a
\* pickup order whose admin notes tell of the substitution.
C14_UnknownStationBecomesPickup ==
  \A r \in live :
    (UnknownStation(req[r]) /\ order[r] # 0) =>
      /\ orders[order[r]].deliveryType = "PICKUP"
      /\ orders[order[r]].notesAdmin = "from bot, station not found"

\* C15: a contact lookup that ends in an error other than not-found ends the
\* run with ContactResolutionFailed: the run has no contact, and requests
\* neither a contact creation nor a deal creation.
C15_LookupErrorAborts ==
  \A r \in live :
    Has(calls[r], "lookupFailed") =>
      /\ Aborted(r) /\ err[r] = "ContactResolutionFailed"
      /\ contact[r] = 0 /\ deal[r] = 0
      /\ ~Has(calls[r], "createContact")
      /\ ~Has(calls[r], "createDeal")

C15_Witness ==
  \E r \in live :
    /\ req[r].variant = "E" /\ req[r].phone = "p1"
    /\ Has(calls[r], "lookupFailed")
    /\ pc[r] = "failed" /\ err[r] = "ContactResolutionFailed"
    /\ crmContacts = {} /\ accessToken["E"] = "cached"

\* C16: when no lookup finds a contact and the contact creation fails, the
\* run ends with ContactCreationFailed and requests no deal creation.
C16_ContactCreationFailureAborts ==
  \A r \in live :
    (Has(calls[r], "createContact") /\ contact[r] = 0) =>
      /\ Aborted(r) /\ err[r] = "ContactCreationFailed"
      /\ deal[r] = 0
      /\ ~Has(calls[r], "createDeal")

C16_Witness ==
  \E r \in live :
    /\ Has(calls[r], "createContact") /\ contact[r] = 0
    /\ req[r].phone = "p1" /\ crmContacts = {}
    /\ pc[r] = "failed" /\ err[r] = "ContactCreationFailed"

\* C17: when the deal creation yields no deal id, the run ends with
\* DealCreationFailed: it attaches no line item and returns no result.
C17_MissingDealIdAborts ==
  \A r \in live :
    (Has(calls[r], "createDeal") /\ deal[r] = 0) =>
      /\ Aborted(r) /\ err[r] = "DealCreationFailed"
      /\ ~Has(calls[r], "attach")
      /\ result[r] = NoResult

C17_Witness ==
  \E r \in live :
    /\ Has(calls[r], "createDeal") /\ deal[r] = 0
    /\ Len(deals) = 1
    /\ pc[r] = "failed" /\ err[r] = "DealCreationFailed"

\* C18: whatever the ledger write does, the run that asked for it does not
\* fail: it keeps no error, and the result it returns reports success.
C18_LedgerFailureIsSwallowed ==
  \A r \in live :
    Has(calls[r], "syncLog") =>
      /\ ~Aborted(r) /\ err[r] = "none"
      /\ pc[r] = "returned" => result[r].success

C18_Witness ==
  \E r \in live :
    /\ Has(calls[r], "syncLog") /\ ledger = <<>>
    /\ xlink[r] = "ok" /\ tracking[r] = "ok"
    /\ pc[r] = "returned" /\ result[r].success

\* C19: no step removes a deal or changes the contact, the price or an
\* attached product of a deal: a deal only gains products.
C19_DealIsNeverUndone ==
  [][\A i \in 1..Len(deals) :
       /\ i \in 1..Len(deals')
       /\ deals'[i].contact = deals[i].contact
       /\ deals'[i].price = deals[i].price
       /\ Len(deals'[i].products) >= Len(deals[i].products)
       /\ SubSeq(deals'[i].products, 1, Len(deals[i].products)) = deals[i].products]_vars

C19_Witness ==
  \E r \in live :
    /\ req[r].variant = "B" /\ OrderFailedAfterDeal(r)
    /\ pc[r] = "returned"
    /\ deal[r] \in 1..Len(deals)
    /\ deals[deal[r]].contact = contact[r]
    /\ Len(deals[deal[r]].products) = Len(enriched[r])

\* C20 as stated: no run changes a piece of in-memory state that another run
\* shares, so the state the service objects share stays as constructed.
C20_RunsShareNoMemory == accessToken = [v \in {"E", "B"} |-> "none"]

\* The part of the state that belongs to run r.
Local(r) ==
  <<req[r], pc[r], items[r], enriched[r], contact[r], deal[r], order[r], idx[r],
    attachFailed[r], xlink[r], tracking[r], flag[r], err[r], result[r], calls[r]>>

Moved(r) == pc'[r] # pc[r] \/ flag'[r] # flag[r]

\* C20: the cached access token is the one piece of in-memory state that runs
\* share; a step of one run changes nothing of the state of another run.
C20_OnlyTokenIsShared ==
  [][\A r1, r2 \in Runs :
       (r1 # r2 /\ Moved(r1)) => Local(r2)' = Local(r2)]_vars

C20_Witness ==
  \E r1, r2 \in live :
    /\ r1 # r2 /\ req[r1] # req[r2]
    /\ req[r1].variant = req[r2].variant
    /\ pc[r1] = "returned" /\ pc[r2] = "returned"
    /\ accessToken[req[r1].variant] = "cached"

\* C21: two runs under the same bot order id that both create a deal create
\* two deals: neither run takes the deal of the other.
C21_ReplayCreatesTwoDeals ==
  \A r1, r2 \in live :
    (/\ r1 # r2
     /\ req[r1].botOrderId = req[r2].botOrderId
     /\ deal[r1] # 0 /\ deal[r2] # 0) =>
      /\ deal[r1] # deal[r2]
      /\ {deal[r1], deal[r2]} \subseteq 1..Len(deals)

C21_Witness ==
  \E r1, r2 \in live :
    /\ r1 # r2 /\ req[r1] = req[r2]
    /\ pc[r1] = "returned" /\ pc[r2] = "returned"
    /\ deal[r1] # 0 /\ deal[r2] # 0 /\ deal[r1] # deal[r2]
    /\ Len(deals) = 2

\* C22: the external order id of the created ecommerce order is the bot order
\* id the caller sent with the request.
C22_ExternalOrderIdIsCallerKey ==
  \A r \in live :
    order[r] # 0 => orders[order[r]].externalOrderId = req[r].botOrderId

\* The delivery read back from the attribute slots of a deal.
ReadDelivery(attributes) ==
  [city |-> attributes[923276], station |-> attributes[923277],
   canton |-> attributes[923275]]

\* The values the order data give for a delivery field, in deliveryInfo or at
\* the top level.
Named(rq, f) == {rq[f], rq.flat[f]} \ {"none"}

\* C23: the city, the station and the canton the order data give are read back
\* from the slots of the city, the station and the canton of the deal.
C23_DeliveryRoundTrip ==
  \A r \in live :
    deal[r] # 0 =>
      \A f \in {"city", "station", "canton"} :
        \A v \in Named(req[r], f) :
          Named(req[r], f) = {v} => ReadDelivery(deals[deal[r]].attributes)[f] = v

C23_Witness ==
  \E r \in live :
    /\ deal[r] # 0 /\ pc[r] = "returned"
    /\ req[r].city = "Bern" /\ req[r].station = "Geneva" /\ req[r].canton = "BE"
    /\ ReadDelivery(deals[deal[r]].attributes) =
         [city |-> "Bern", station |-> "Geneva", canton |-> "BE"]

\* C24: the primary steps of a run follow each other in the order enrichment,
\* contact resolution, deal creation, order creation, cross-link: a step is
\* requested only when the steps before it have given their results.
C24_PrimaryStepsInOrder ==
  \A r \in live :
    /\ contact[r] # 0 => enriched[r] # <<>>
    /\ Has(calls[r], "createDeal") => contact[r] # 0
    /\ Has(calls[r], "createOrder") => deal[r] # 0
    /\ Has(calls[r], "patchSync") => order[r] # 0

\* C25: a CRM request is sent at most twice; the second send follows a 401
\* and carries a token obtained after the first send, and a 401 that answers
\* the second send rejects the request.
C25_RetriedAtMostOnce ==
  \A c \in Reqs :
    /\ Len(http[c].headers) <= 2
    /\ Len(http[c].headers) = 2 =>
         http[c].retried /\ http[c].headers[2] > http[c].headers[1]
    /\ (Len(http[c].headers) = 2 /\ http[c].status = 401 /\ http[c].pc # "inflight") =>
         http[c].pc = "rejected"

C25_Witness ==
  \E c \in Reqs :
    /\ Len(http[c].headers) = 2 /\ http[c].status = 401
    /\ http[c].pc = "rejected" /\ http[c].auth = 2

\* A token is cached and the clock has not reached its buffered expiry time.
Unexpired ==
  accessToken["E"] = "cached" /\ tokenExpiry["E"] > 0 /\ tokenExpiry["E"] > now

\* C26: an authentication call is made only when, as it goes out, no
\* unexpired token is cached (a 401 has cleared the cache by then), and a
\* request is sent only with an unexpired cached token or with the token
\* obtained for it in the same step.
C26_TokenCachedUntilExpiry ==
  [][\A c \in Reqs :
       /\ http'[c].auth > http[c].auth => ~Unexpired'
       /\ Len(http'[c].headers) > Len(http[c].headers) =>
            Unexpired \/ issued' > issued]_vars

C26_Witness ==
  \E c, d \in Reqs :
    /\ c # d /\ issued = 1 /\ Unexpired /\ now > 0
    /\ http[d].auth = 1 /\ http[d].headers = <<1>>
    /\ http[c].auth = 0 /\ http[c].headers = <<1>>

\* C27: at most one authentication call is in flight at a time.
C27_RefreshIsSingleFlight ==
  Cardinality({c \in Reqs : http[c].pc \in {"auth", "reauth"}}) <= 1

\* The awaits of the contact resolver: the lookups and the creation.
PhoneLookups == {"E_findByPhone", "E_lookupOrCreate"}
ResolverSteps ==
  {"E_findContact", "E_findAgain", "E_createContact", "B_findContact"} \cup PhoneLookups

\* C28: the resolver looks up by phone only for a request that gives a phone,
\* and once a step has yielded a contact no lookup and no creation follows.
C28_ResolverOrder ==
  \A r \in live :
    /\ pc[r] \in PhoneLookups => req[r].phone # "none"
    /\ contact[r] # 0 => pc[r] \notin ResolverSteps

\* C29: no run fails because the lookup by messenger id found no contact.
C29_NotFoundIsNotAnError ==
  \A r \in live : err[r] # "ContactNotFound"

\* C30: a run that failed in the contact resolution has left a ledger entry
\* that records a failure.
C30_ContactFailureIsLedgered ==
  \A r \in live :
    (/\ pc[r] = "failed"
     /\ err[r] \in {"ContactResolutionFailed", "ContactCreationFailed", "ContactNotFound"}) =>
      \E i \in 1..Len(ledger) : ledger[i].syncStatus = "FAILED"

\* The total the bot declares for the deal: orderAttributes.sum, and for the
\* enhanced saga the sum of the order data when there is none.
DeclaredTotal(rq) == IF rq.variant = "E" THEN Or(rq.attrSum, rq.sum) ELSE rq.attrSum

\* C31: the price of a created deal is the declared total when there is one
\* and it is a number, and the sum of the totals of the resolved products when
\* the declared total is absent or no number.
C31_DealPrice ==
  \A r \in live :
    deal[r] # 0 =>
      deals[deal[r]].price =
        IF DeclaredTotal(req[r]) \notin {0, Unparseable}
        THEN DeclaredTotal(req[r])
        ELSE ProductsTotal(enriched[r])

\* C32: the title of a created deal has at most MAX_TITLE_LENGTH characters.
C32_TitleWithinLimit ==
  \A r \in live :
    deal[r] # 0 => deals[deal[r]].title.len <= MAX_TITLE_LENGTH

\* C33: the title of a created deal is the order_text of the bot when the bot
\* sent one, and is made of the names of the products when it sent none.
C33_TitleIsOrderText ==
  \A r \in live :
    deal[r] # 0 =>
      deals[deal[r]].title.kind =
        IF req[r].order_text # 0 THEN "order_text" ELSE "names"

\* C34: no attribute of a created deal is the joined list of the products.
C34_NoRawProductList ==
  \A r \in live :
    deal[r] # 0 => deals[deal[r]].attributes[922108].kind # "products"

\* C35: every step leaves the rows the sync log had in their places and at
\* most adds rows after them.
C35_LedgerAppendOnly ==
  [][/\ Len(ledger') >= Len(ledger)
     /\ SubSeq(ledger', 1, Len(ledger)) = ledger]_vars

C35_Witness ==
  /\ Len(ledger) = 2
  /\ ledger[1].orderId # ledger[2].orderId
  /\ \A r \in Runs : pc[r] = "returned"

\* C36: a run that has ended and created an ecommerce order has created a
\* deal too.
C36_NoOrderWithoutDeal ==
  \A r \in live :
    (pc[r] \in {"returned", "failed"} /\ order[r] # 0) => deal[r] # 0

\* The station id the requested station of a request resolves to, 0 = null.
ResolvedStationId(rq) ==
  IF rq.variant = "E" THEN MapStationNameToId(RequestedStation(rq))
  ELSE MapStationNameToIdB(DeliveryB(rq).station)

C38_UpdateOnlyOnChange ==
  \A w \in Hooks :
    /\ hook[w].sent <= 1
    /\ hook[w].sent > 0 =>
         /\ hook[w].deal_id \in ShopDeals
         /\ hook[w].stepName \in DOMAIN StepMapping
         /\ hook[w].found # hook[w].status
    /\ (hook[w].redelivered /\ hook[w].found = hook[w].status) => hook[w].sent = 0

C38_Witness ==
  \E w \in Hooks :
    /\ hook[w].redelivered /\ hook[w].pc = "answered"
    /\ hook[w].found = "CONFIRMED" /\ hook[w].sent = 0
    /\ hook[w].message = "Status already up to date"

\* C38 as it is stated: a webhook delivered again after it was answered with
\* an update sends no status update.
C38_RedeliveryNeverUpdates ==
  \A w \in Hooks : hook[w].redelivered => hook[w].sent = 0

\* C39: the cart holds at most one row for a product.
C39_OneRowPerProduct ==
  \A p \in CartProducts : Cardinality(RowsOf(p)) <= 1

\* C40: the rows a checkout deleted are rows createOrder was called with, and
\* a checkout whose createOrder threw has deleted none.
C40_DeletedWereOrdered ==
  /\ co.deleted \subseteq co.items
  /\ pc["r1"] = "failed" => co.deleted = {}

====
